---- MODULE Spec2Model ----
(***************************************************************************)
(* Ingest / persistence core of the edge cloud storage service.            *)
(*                                                                         *)
(* The model follows services/storage-service/app/routers/upload.py,       *)
(* routers/files.py and services/deduplication_enhanced.py.                *)
(*                                                                         *)
(* Sizes are byte counts.  A byte string is a sequence of extents: an      *)
(* extent is an opaque piece of content of a fixed byte length (ExtentLen),*)
(* so concatenation is sequence concatenation and len() is the sum of the  *)
(* extent lengths.  SHA-256 is modelled as an injective function of the    *)
(* content.  The rolling hash of the content-defined chunker is content    *)
(* determined: it is modelled as firing exactly at the end of an extent.   *)
(* ActivityLog rows are append-only and never read back; they are left out.*)
(***************************************************************************)
EXTENDS Integers, Sequences, FiniteSets, TLC

MiB == 1024 * 1024

\* ---- program constants ------------------------------------------------
INLINE_THRESHOLD == 512 * 1024
SINGLE_OBJECT_THRESHOLD == 50 * 1024 * 1024
CHUNK_SIZE == 32 * 1024 * 1024
DEDUP_THRESHOLD == 10 * 1024 * 1024
COMPRESS_MIN_SIZE == 1024 * 1024
SESSION_TTL == 3600
min_block_size == 2 * 1024 * 1024
max_block_size == 8 * 1024 * 1024

COMPRESSED_FORMATS == {".zip", ".gz", ".rar", ".7z", ".bz2", ".xz",
                       ".jpg", ".jpeg", ".png", ".mp4", ".mp3", ".avi",
                       ".mkv", ".mov", ".webm", ".flac", ".aac", ".ogg",
                       ".pdf", ".docx", ".xlsx", ".pptx"}
COMPRESSIBLE_FORMATS == {".txt", ".log", ".csv", ".json", ".xml", ".sql",
                         ".html", ".css", ".js", ".py", ".java", ".c", ".cpp"}

\* ---- bounds of the model ------------------------------------------------
MaxSessions == 2
MaxFiles == 2
MaxInflight == 2
MaxIndex == 2
MaxChunkSessions == 1
MaxDownloads == 1
MaxRangeSessions == 1
TickSeconds == 1800

Users == {"u1", "u2"}
\* storage_quota is per user: u1 can hold a chunked upload, u2 cannot
UserQuota(u) == IF u = "u1" THEN 100 * MiB ELSE 16 * MiB

\* ---- content ------------------------------------------------------------
\* extents: 1 = 100 KiB, 2 = 5 MiB, 3 and 4 = 6 MiB, 5 and 6 = 8 MiB
Extents == 1..6
ExtentLen(e) ==
    CASE e = 1 -> 100 * 1024
      [] e = 2 -> 5 * MiB
      [] e \in {3, 4} -> 6 * MiB
      [] OTHER -> 8 * MiB

\* len(data)
RECURSIVE ByteLen(_)
ByteLen(data) ==
    IF data = <<>> THEN 0 ELSE ExtentLen(Head(data)) + ByteLen(Tail(data))

\* hashlib.sha256(data).hexdigest(): injective in the content
sha256(data) == [sha |-> data]
\* the empty string that session.get("hash", "") yields
NoHash == [sha |-> <<-1>>]

\* ---- encryption envelope ------------------------------------------------
\* encrypt_file / encrypt_chunk: AES-GCM under the file key; a chunk binds its
\* index as additional authenticated data, a whole file binds none (aad = -1).
\* z records whether the sealed bytes are the compressed form of body.
\* intact: the frame (nonce, ciphertext, tag) is byte for byte as sealed.
NoFrame ==
    [key |-> 0, aad |-> -1, z |-> FALSE, body |-> <<>>, present |-> FALSE, intact |-> TRUE]
encrypt_file(data, key, z) ==
    [key |-> key, aad |-> -1, z |-> z, body |-> data, present |-> TRUE, intact |-> TRUE]
encrypt_chunk(data, key, index, z) ==
    [key |-> key, aad |-> index, z |-> z, body |-> data, present |-> TRUE, intact |-> TRUE]
\* AESGCM.decrypt raises InvalidTag unless key and aad are the sealing ones
\* and no byte of the frame was changed
\* a decryption that does not verify the tag
decrypt_unverified(frame, key, aad) == frame.present
decrypt_ok(frame, key, aad) ==
    frame.present /\ frame.intact /\ frame.key = key /\ frame.aad = aad

\* ---- should_compress ----------------------------------------------------
FileNames == {"a.bin", "a.txt"}
splitext(name) == IF name = "a.txt" THEN ".txt" ELSE IF name = "a.bin" THEN ".bin" ELSE ""
should_compress(filename, size) ==
    LET ext == splitext(filename) IN
    IF ext \in COMPRESSED_FORMATS THEN FALSE
    ELSE IF ext \in COMPRESSIBLE_FORMATS /\ size > COMPRESS_MIN_SIZE THEN TRUE
    ELSE FALSE

\* ---- state ---------------------------------------------------------------
VARIABLES
    users,      \* users table: storage_quota, storage_used
    sessions,   \* session cache: key up:<upload_id> -> session record
    nextSid,    \* number of upload ids handed out (uuid4 is fresh)
    disk,       \* temporary frames under /app/storage/cache: path -> bytes
    cas,        \* content-addressed store: block hash -> bytes of the file
    files,      \* objects table: file id -> row
    nextFid,    \* number of file ids handed out
    blocks,     \* content blocks table, in created_at order
    chunk_refs, \* session cache counters chunk:refs:<hash>
    reqs,       \* upload_chunk requests between reading and writing the session
    tasks,      \* fire-and-forget SETEX tasks not yet executed
    resp,       \* the response of the last request that returned
    sent,       \* history: (upload id, index, bytes) answered with success
    plain,      \* history: file id -> the bytes accepted for its session
    activity,   \* activity_logs: file id -> number of file_downloaded records
    settings,   \* the configuration the service was started with
    ttl,        \* session cache: remaining lifetime of up:<upload_id>, in
                \* seconds; 0 once the cache has expired the key
    txns        \* store_deduplicated_file calls that have not committed yet

vars == <<users, sessions, nextSid, disk, cas, files, nextFid, blocks,
          chunk_refs, reqs, tasks, resp, sent, plain, activity, settings, ttl,
          txns>>

DIRECT == -1

ChunkPath(upload_id, index) == <<"chunk", upload_id, index>>
ObjectPath(upload_id) == <<"objects", upload_id, 0>>
NoPath == <<"", 0, 0>>

\* dict helpers
Put(f, k, v) == [x \in DOMAIN f \cup {k} |-> IF x = k THEN v ELSE f[x]]
Del(f, k) == [x \in DOMAIN f \ {k} |-> f[x]]
EmptyMap == [x \in {} |-> 0]

Response(op, code, status, id, index) ==
    [op |-> op, code |-> code, status |-> status, id |-> id, index |-> index,
     missing |-> {}, body |-> <<>>, bytes |-> 0, strategy |-> "", chunk_size |-> 0,
     chunks |-> 0, direct |-> FALSE, skip |-> 0, content_range |-> <<>>,
     content_length |-> -1, dedup_status |-> "", dedup_ratio |-> 0]

\* getattr(settings, 'CROSS_USER_DEDUP', False)
DefaultSettings == [CROSS_USER_DEDUP |-> FALSE]
enable_cross_user_dedup == settings.CROSS_USER_DEDUP

\* empty tables, an empty session cache, empty storage
Empty ==
    /\ users = [u \in Users |-> [quota |-> UserQuota(u), used |-> 0]]
    /\ sessions = EmptyMap
    /\ nextSid = 1
    /\ disk = EmptyMap
    /\ cas = EmptyMap
    /\ files = EmptyMap
    /\ nextFid = 1
    /\ blocks = <<>>
    /\ chunk_refs = EmptyMap
    /\ reqs = {}
    /\ tasks = {}
    /\ resp = Response("none", 0, "", 0, 0)
    /\ sent = {}
    /\ plain = EmptyMap
    /\ activity = EmptyMap
    /\ ttl = EmptyMap
    /\ txns = {}

Init == Empty /\ settings = DefaultSettings

\* a deployment that sets CROSS_USER_DEDUP, or leaves it out
InitDeployed == Empty /\ settings \in [CROSS_USER_DEDUP : BOOLEAN]

\* ---- POST /upload/init ----------------------------------------------------
\* a size on a threshold taken for the smaller strategy
storage_strategy_inclusive(file_size) ==
    IF file_size <= INLINE_THRESHOLD THEN "inline"
    ELSE IF file_size <= SINGLE_OBJECT_THRESHOLD THEN "single"
    ELSE "chunked"
storage_strategy(file_size) ==
    IF file_size < INLINE_THRESHOLD THEN "inline"
    ELSE IF file_size < SINGLE_OBJECT_THRESHOLD THEN "single"
    ELSE "chunked"

total_chunks(file_size) ==
    IF storage_strategy(file_size) = "chunked"
    THEN (file_size + CHUNK_SIZE - 1) \div CHUNK_SIZE
    ELSE 0

\* the check without the bytes already used
quota_exceeded_ignoring_used(used, file_size, quota) == file_size > quota
quota_exceeded(used, file_size, quota) == used + file_size > quota

NewSession(user, file_name, file_size, upload_id) ==
    [user |-> user, name |-> file_name, size |-> file_size,
     strategy |-> storage_strategy(file_size), chunks |-> total_chunks(file_size),
     done |-> <<>>, hashes |-> <<>>, chunk_paths |-> EmptyMap,
     key |-> upload_id, compress |-> should_compress(file_name, file_size),
     encrypted_data |-> NoFrame, storage_type |-> "", storage_path |-> NoPath,
     hash |-> NoHash]

init_upload(user, file_name, file_size) ==
    /\ nextSid <= MaxSessions
    /\ IF file_name = ""
       THEN /\ resp' = Response("init", 400, "file_name and file_size required", 0, 0)
            /\ UNCHANGED <<sessions, nextSid, ttl>>
       ELSE IF quota_exceeded(users[user].used, file_size, users[user].quota)
       THEN /\ resp' = Response("init", 413, "Storage quota exceeded", 0, 0)
            /\ UNCHANGED <<sessions, nextSid, ttl>>
       ELSE /\ sessions' = Put(sessions, nextSid,
                                NewSession(user, file_name, file_size, nextSid))
            /\ ttl' = Put(ttl, nextSid, SESSION_TTL)
            /\ nextSid' = nextSid + 1
            /\ resp' = [Response("init", 200, "ok", nextSid, 0) EXCEPT
                          !.strategy = storage_strategy(file_size),
                          !.chunk_size = IF storage_strategy(file_size) = "chunked"
                                         THEN CHUNK_SIZE ELSE 0,
                          !.chunks = total_chunks(file_size),
                          !.direct = storage_strategy(file_size) # "chunked"]
    /\ UNCHANGED <<users, disk, cas, files, nextFid, blocks, chunk_refs, reqs,
                   tasks, sent, plain, activity, settings, txns>>

\* ---- POST /upload/chunk/{upload_id} ---------------------------------------
\* The handler reads the session, awaits the body, the worker pool and the
\* file write, and then hands the changed session to a task that writes it
\* back: three steps that other requests interleave with.
InFlight == Cardinality(reqs) + Cardinality(tasks)

upload_chunk_read(user, upload_id, chunk_index, chunk_data) ==
    /\ InFlight < MaxInflight
    /\ IF upload_id \notin DOMAIN sessions
       THEN /\ resp' = Response("chunk", 404, "Upload session not found", upload_id, chunk_index)
            /\ UNCHANGED reqs
       ELSE IF sessions[upload_id].user # user
       THEN /\ resp' = Response("chunk", 403, "Unauthorized", upload_id, chunk_index)
            /\ UNCHANGED reqs
       ELSE IF \E k \in 1..Len(sessions[upload_id].done) :
                   sessions[upload_id].done[k] = chunk_index
       THEN /\ resp' = Response("chunk", 200, "already_uploaded", upload_id, chunk_index)
            /\ UNCHANGED reqs
       ELSE /\ reqs' = reqs \cup {[id |-> upload_id, index |-> chunk_index,
                                    data |-> chunk_data, session |-> sessions[upload_id]]}
            /\ UNCHANGED resp
    /\ UNCHANGED <<users, sessions, nextSid, disk, cas, files, nextFid, blocks,
                   chunk_refs, tasks, sent, plain, activity, settings, ttl, txns>>

process_chunk_cpu_bound(chunk_data, file_key, chunk_index, compress) ==
    [encrypted_chunk |-> encrypt_chunk(chunk_data, file_key, chunk_index, compress),
     original_hash |-> sha256(chunk_data)]

session_with_chunk(session, upload_id, chunk_index, chunk_hash) ==
    [session EXCEPT !.done = Append(@, chunk_index),
                    !.hashes = Append(@, chunk_hash),
                    !.chunk_paths = Put(@, chunk_index, ChunkPath(upload_id, chunk_index))]

upload_chunk_write(r) ==
    LET p == process_chunk_cpu_bound(r.data, r.session.key, r.index, r.session.compress)
        session == session_with_chunk(r.session, r.id, r.index, p.original_hash)
    IN
    /\ r \in reqs
    /\ disk' = Put(disk, ChunkPath(r.id, r.index), p.encrypted_chunk)
    /\ reqs' = reqs \ {r}
    /\ tasks' = tasks \cup {[id |-> r.id, session |-> session]}
    /\ resp' = Response("chunk", 200, "success", r.id, r.index)
    /\ sent' = {t \in sent : ~(t[1] = r.id /\ t[2] = r.index)} \cup {<<r.id, r.index, r.data>>}
    /\ UNCHANGED <<users, sessions, nextSid, cas, files, nextFid, blocks,
                   chunk_refs, plain, activity, settings, ttl, txns>>

\* the task created at upload.py:262 runs: SETEX up:<id> 3600 <session>
upload_chunk_setex(t) ==
    /\ t \in tasks
    /\ sessions' = Put(sessions, t.id, t.session)
    /\ ttl' = Put(ttl, t.id, SESSION_TTL)
    /\ tasks' = tasks \ {t}
    /\ UNCHANGED <<users, nextSid, disk, cas, files, nextFid, blocks, chunk_refs,
                   reqs, resp, sent, plain, activity, settings, txns>>

\* ---- POST /upload/direct/{upload_id} --------------------------------------
upload_direct(user, upload_id, file_data) ==
    IF upload_id \notin DOMAIN sessions
    THEN /\ resp' = Response("direct", 404, "Upload session not found", upload_id, DIRECT)
         /\ UNCHANGED <<users, sessions, nextSid, disk, cas, files, nextFid, blocks,
                        chunk_refs, reqs, tasks, sent, plain, activity, settings, ttl, txns>>
    ELSE IF sessions[upload_id].user # user
    THEN /\ resp' = Response("direct", 403, "Unauthorized", upload_id, DIRECT)
         /\ UNCHANGED <<users, sessions, nextSid, disk, cas, files, nextFid, blocks,
                        chunk_refs, reqs, tasks, sent, plain, activity, settings, ttl, txns>>
    ELSE
      LET session == sessions[upload_id]
          encrypted_data == encrypt_file(file_data, session.key, session.compress)
          file_hash == sha256(file_data)
      IN
      /\ IF session.strategy = "inline"
         THEN /\ sessions' = Put(sessions, upload_id,
                     [session EXCEPT !.encrypted_data = encrypted_data,
                                     !.storage_type = "inline",
                                     !.hash = file_hash])
              /\ UNCHANGED disk
         ELSE /\ disk' = Put(disk, ObjectPath(upload_id), encrypted_data)
              /\ sessions' = Put(sessions, upload_id,
                     [session EXCEPT !.storage_path = ObjectPath(upload_id),
                                     !.storage_type = "single",
                                     !.hash = file_hash])
      /\ ttl' = Put(ttl, upload_id, SESSION_TTL)
      /\ resp' = Response("direct", 200, "success", upload_id, DIRECT)
      /\ sent' = {t \in sent : ~(t[1] = upload_id /\ t[2] = DIRECT)}
                    \cup {<<upload_id, DIRECT, file_data>>}
      /\ UNCHANGED <<users, nextSid, cas, files, nextFid, blocks, chunk_refs,
                     reqs, tasks, plain, activity, settings, txns>>

\* ---- content-defined chunking and the block table -------------------------
\* find_chunk_boundaries: data shorter than min_block_size is one block;
\* otherwise a boundary follows every position i >= min_block_size at which
\* the rolling hash fires (the last byte of an extent), and the end of data.
\* The blocks are returned as {data, size, offset}.
RECURSIVE cdc_walk(_, _, _, _)
cdc_walk(rest, cur, start, pos) ==
    IF rest = <<>>
    THEN IF cur = <<>> THEN <<>>
         ELSE <<[data |-> cur, size |-> pos - start, offset |-> start]>>
    ELSE LET e == Head(rest)
             end == pos + ExtentLen(e)
         IN IF end - 1 >= min_block_size
            THEN <<[data |-> Append(cur, e), size |-> end - start, offset |-> start]>>
                 \o cdc_walk(Tail(rest), <<>>, end, end)
            ELSE cdc_walk(Tail(rest), Append(cur, e), start, end)

find_chunk_blocks(data) ==
    IF ByteLen(data) < min_block_size
    THEN <<[data |-> data, size |-> ByteLen(data), offset |-> 0]>>
    ELSE cdc_walk(data, <<>>, 0, 0)

\* find_chunk_boundaries, byte by byte: fires is the set of the positions i at
\* which (hash_val & modulus) == modulus, n is len(data).  The loop tests a
\* position only when i >= min_block_size; there it appends i + 1 when the
\* hash fires, else when i - (boundaries[-1] or 0) >= max_block_size.
\* scan_boundaries jumps to the next position that appends: i0 is the next
\* position of the loop, last is boundaries[-1] or 0.
RECURSIVE scan_boundaries(_, _, _, _)
scan_boundaries(fires, n, i0, last) ==
    LET lo == IF i0 > min_block_size THEN i0 ELSE min_block_size
        hits == {i \in fires : i >= lo}
        forced == IF last + max_block_size > lo THEN last + max_block_size ELSE lo
        first == IF hits = {} THEN forced
                 ELSE CHOOSE i \in hits : \A j \in hits : i <= j
        i == IF first < forced THEN first ELSE forced
    IN IF i >= n THEN <<>>
       ELSE <<i + 1>> \o scan_boundaries(fires, n, i + 1, i + 1)

find_chunk_boundaries(fires, n) ==
    IF n < min_block_size THEN <<n>>
    ELSE LET boundaries == scan_boundaries(fires, n, 0, 0)
         IN IF boundaries = <<>> \/ boundaries[Len(boundaries)] # n
            THEN Append(boundaries, n)
            ELSE boundaries

calculate_block_hash(data) == sha256(data)

\* ContentBlock.file_id of the rows a file inserts: new_file.id is read at
\* deduplication_enhanced.py:355 before the unit of work is flushed, when the
\* column default (uuid4) has not been applied yet, so the rows carry no file.
NoFileId == 0

\* select(ContentBlock).where(block_hash == h) [.join(Object).where(user_id)]
\*   .order_by(created_at.asc()) ... .first(): the row's position, 0 if none
existing_block(table, objects, cross, block_hash, user_id) ==
    LET hits == {i \in 1..Len(table) :
                    /\ table[i].block_hash = block_hash
                    /\ (cross \/ (/\ table[i].file_id \in DOMAIN objects
                                  /\ objects[table[i].file_id].user_id = user_id))}
    IN IF hits = {} THEN 0 ELSE CHOOSE i \in hits : \A j \in hits : i <= j

\* the entries with the offset at which each block ends
dedup_entries_end_offsets(table, objects, cross, file_data, user_id) ==
    LET bs == find_chunk_blocks(file_data) IN
    [k \in 1..Len(bs) |->
        [hash |-> calculate_block_hash(bs[k].data), size |-> bs[k].size,
         offset |-> bs[k].offset + bs[k].size,
         is_duplicate |-> existing_block(table, objects, cross,
                             calculate_block_hash(bs[k].data), user_id) # 0]]
\* deduplicate_before_encryption: the manifest entries of file_data
dedup_entries(table, objects, cross, file_data, user_id) ==
    LET bs == find_chunk_blocks(file_data) IN
    [k \in 1..Len(bs) |->
        [hash |-> calculate_block_hash(bs[k].data), size |-> bs[k].size,
         offset |-> bs[k].offset,
         is_duplicate |-> existing_block(table, objects, cross,
                             calculate_block_hash(bs[k].data), user_id) # 0]]

\* ... and the table after its UPDATE ... reference_count + 1 statements
increment_reference(row, n) == [row EXCEPT !.reference_count = @ + n]

dedup_increments(table, objects, cross, file_data, user_id) ==
    LET bs == find_chunk_blocks(file_data) IN
    [i \in 1..Len(table) |->
        increment_reference(table[i],
            Cardinality({k \in 1..Len(bs) :
                existing_block(table, objects, cross,
                               calculate_block_hash(bs[k].data), user_id) = i}))]

RECURSIVE sum_sizes(_)
sum_sizes(entries) ==
    IF entries = <<>> THEN 0 ELSE Head(entries).size + sum_sizes(Tail(entries))

is_dup(entry) == entry.is_duplicate
is_new(entry) == ~entry.is_duplicate
saved_size(entries) == sum_sizes(SelectSeq(entries, is_dup))
\* saved_size / total_size * 100, in whole percents
dedup_ratio(entries) ==
    IF sum_sizes(entries) > 0 THEN (saved_size(entries) * 100) \div sum_sizes(entries) ELSE 0

\* convergent encryption: key and nonce are derived from the block content
derive_key_from_content(data) == [derived |-> sha256(data)]
\* a block sealed under the key of the file being stored
block_to_store_file_key(data) ==
    [nonce |-> calculate_block_hash(data), key |-> [derived |-> sha256(<<nextFid>>)],
     body |-> data]
block_to_store(data) ==
    [nonce |-> calculate_block_hash(data), key |-> derive_key_from_content(data),
     body |-> data]

RECURSIVE store_new_blocks(_, _)
store_new_blocks(store, news) ==
    IF news = <<>> THEN store
    ELSE LET b == Head(news) IN
         store_new_blocks(
            IF b.hash \in DOMAIN store THEN store
            ELSE Put(store, b.hash, block_to_store(b.hash.sha)),
            Tail(news))

\* a row of the content blocks table.  models/database.py declares no
\* ContentBlock: the row has the columns the service writes and reads, with
\* file_id nullable (the Block entity carries no owning file).
ContentBlock(block_hash, file_id, block_size, block_offset, reference_count) ==
    [block_hash |-> block_hash, file_id |-> file_id, block_size |-> block_size,
     block_offset |-> block_offset, reference_count |-> reference_count]

new_block_row(entry) == ContentBlock(entry.hash, NoFileId, entry.size, entry.offset, 1)

new_block_rows(entries) ==
    LET news == SelectSeq(entries, is_new) IN
    [k \in 1..Len(news) |-> new_block_row(news[k])]

\* a full-file lookup that leaves the uploader out of the WHERE clause
existing_file_any_user(objects, cross, file_hash, user_id) ==
    LET hits == {f \in DOMAIN objects : objects[f].content_hash = file_hash}
    IN IF hits = {} THEN 0 ELSE CHOOSE f \in hits : \A g \in hits : f <= g

\* select(Object).where(content_hash == h, user_id == u or True)
\*   .order_by(created_at.asc()) ... .first(): the file id, 0 if none
existing_file(objects, cross, file_hash, user_id) ==
    LET hits == {f \in DOMAIN objects :
                    /\ objects[f].content_hash = file_hash
                    /\ (cross \/ objects[f].user_id = user_id)}
    IN IF hits = {} THEN 0 ELSE CHOOSE f \in hits : \A g \in hits : f <= g

\* ---- objects table rows ---------------------------------------------------
NoChunkInfo ==
    [present |-> FALSE, chunks |-> <<>>, count |-> 0, paths |-> EmptyMap,
     upload_id |-> 0, compressed |-> FALSE, blocks |-> <<>>]
\* Object.dedup_info: written by store_deduplicated_file; the column is not
\* among those models/database.py declares
NoDedupInfo == [present |-> FALSE, reference_file_id |-> 0, saved_size |-> 0]

ObjectRow(user_id, file_size, storage_type, content_hash, encryption_key, compressed) ==
    [user_id |-> user_id, file_size |-> file_size, storage_type |-> storage_type,
     storage_key |-> NoFrame, object_path |-> NoPath, content_hash |-> content_hash,
     encryption_key |-> encryption_key, chunk_info |-> NoChunkInfo,
     compressed |-> compressed, dedup_info |-> NoDedupInfo, last_accessed |-> 0,
     storage_tier |-> "cache"]

\* generate_file_key() inside store_deduplicated_file: fresh, unlike any session key
master_key_of(file_id) == 0 - file_id

\* Object(storage_type='deduplicated_reference', ...)
reference_row(user_id, file_data, target_id, target) ==
    [ObjectRow(user_id, ByteLen(file_data), "deduplicated_reference",
               calculate_block_hash(file_data), target.encryption_key, FALSE)
        EXCEPT !.dedup_info = [present |-> TRUE, reference_file_id |-> target_id,
                               saved_size |-> ByteLen(file_data)]]

\* Object(storage_type='content_addressed', ...)
content_addressed_row(user_id, file_data, entries, file_id) ==
    [ObjectRow(user_id, ByteLen(file_data), "content_addressed",
               calculate_block_hash(file_data), master_key_of(file_id), FALSE)
        EXCEPT !.chunk_info = [NoChunkInfo EXCEPT !.present = TRUE, !.blocks = entries],
               !.dedup_info = [present |-> TRUE, reference_file_id |-> 0,
                               saved_size |-> saved_size(entries)]]

\* hashlib.sha256("".join(session["hashes"])): over the hashes in stored order
RECURSIVE join_hashes(_)
join_hashes(hashes) ==
    IF hashes = <<>> THEN <<>> ELSE Head(hashes).sha \o <<0>> \o join_hashes(Tail(hashes))
combined_hash(hashes) == [sha |-> <<0>> \o join_hashes(hashes)]

\* the Object rows of upload.py:541-594
plain_row(user_id, session, upload_id) ==
    IF session.strategy = "inline"
    THEN [ObjectRow(user_id, session.size, "inline", session.hash, session.key,
                    session.compress)
            EXCEPT !.storage_key = session.encrypted_data]
    ELSE IF session.strategy = "single"
    THEN [ObjectRow(user_id, session.size, "single", session.hash, session.key,
                    session.compress)
            EXCEPT !.object_path = session.storage_path]
    ELSE [ObjectRow(user_id, session.size, "chunked", combined_hash(session.hashes),
                    session.key, FALSE)
            EXCEPT !.chunk_info = [present |-> TRUE, chunks |-> session.hashes,
                                   count |-> session.chunks,
                                   paths |-> session.chunk_paths,
                                   upload_id |-> upload_id,
                                   compressed |-> session.compress,
                                   blocks |-> <<>>]]

\* ---- POST /upload/complete/{upload_id} ------------------------------------
missing_chunks(session) ==
    (0..(session.chunks - 1)) \ {session.done[k] : k \in 1..Len(session.done)}

is_incomplete(session) ==
    session.strategy = "chunked" /\ Len(session.done) # session.chunks

enable_dedup(session) ==
    session.size > DEDUP_THRESHOLD /\ session.strategy \in {"single", "chunked"}

\* utils/compression.py:6 makes compressor a ZstdCompressor, which has no
\* decompress(): every compressor.decompress(...) call raises.
compressor_decompress_raises == TRUE

\* upload.py:391-431: read the temporary frames back, decrypt, decompress.
\* ok is FALSE when a step raises (the request then ends with 500).
RECURSIVE assemble_chunks(_, _, _, _)
assemble_chunks(store, session, upload_id, i) ==
    IF i >= session.chunks THEN [ok |-> TRUE, data |-> <<>>]
    ELSE LET rest == assemble_chunks(store, session, upload_id, i + 1)
             path == ChunkPath(upload_id, i)
         IN IF path \notin DOMAIN store THEN rest
            ELSE IF ~decrypt_ok(store[path], session.key, i) THEN [ok |-> FALSE, data |-> <<>>]
            ELSE IF session.compress /\ compressor_decompress_raises
                 THEN [ok |-> FALSE, data |-> <<>>]
            ELSE [ok |-> rest.ok, data |-> store[path].body \o rest.data]

original_data(store, session, upload_id) ==
    IF session.strategy = "single"
    THEN IF session.storage_path # NoPath /\ session.storage_path \in DOMAIN store
         THEN IF ~decrypt_ok(store[session.storage_path], session.key, -1)
              THEN [ok |-> FALSE, data |-> <<>>]
              ELSE IF session.compress /\ compressor_decompress_raises
              THEN [ok |-> FALSE, data |-> <<>>]
              ELSE [ok |-> TRUE, data |-> store[session.storage_path].body]
         ELSE [ok |-> TRUE, data |-> <<>>]
    ELSE assemble_chunks(store, session, upload_id, 0)

\* os.remove of the temporary frames after a successful deduplication
remove_originals(store, session) ==
    IF session.strategy = "single"
    THEN IF session.storage_path # NoPath THEN Del(store, session.storage_path) ELSE store
    ELSE [q \in DOMAIN store \ {session.chunk_paths[i] : i \in DOMAIN session.chunk_paths}
            |-> store[q]]

\* history: the bytes the client was told were accepted for this session,
\* and the session a file was completed from
sent_data(upload_id, index) ==
    IF \E t \in sent : t[1] = upload_id /\ t[2] = index
    THEN (CHOOSE t \in sent : t[1] = upload_id /\ t[2] = index)[3]
    ELSE <<>>
RECURSIVE sent_chunks(_, _, _)
sent_chunks(upload_id, i, n) ==
    IF i >= n THEN <<>> ELSE sent_data(upload_id, i) \o sent_chunks(upload_id, i + 1, n)
accepted_plaintext(session, upload_id) ==
    IF session.strategy = "chunked"
    THEN [data |-> sent_chunks(upload_id, 0, session.chunks),
          all |-> \A i \in 0..(session.chunks - 1) :
                     \E t \in sent : t[1] = upload_id /\ t[2] = i,
          upload_id |-> upload_id, strategy |-> session.strategy]
    ELSE [data |-> sent_data(upload_id, DIRECT),
          all |-> \E t \in sent : t[1] = upload_id /\ t[2] = DIRECT,
          upload_id |-> upload_id, strategy |-> session.strategy]

Unchanged_db == UNCHANGED <<users, files, nextFid, blocks, cas, plain, activity, settings, ttl, txns>>

complete_reply(code, status, upload_id) == Response("complete", code, status, upload_id, 0)

\* dedup: how store_deduplicated_file ended.  "stored": it committed.
\* "raised": it raised before writing a block (a failing statement), rolled
\* back, and complete_upload fell back to the session's own strategy.
\* "raised_late": it raised after the block files were written (a failing
\* Object(...) / commit), with the same fallback; the block files stay.
\* "raised_after_commit": it committed, and a later statement of the try
\* block around it raised (the cache being unreachable for a moment), with
\* the same fallback.
DedupOutcomes == {"stored", "raised", "raised_late"}

complete_upload(user, upload_id, dedup) ==
    IF upload_id \notin DOMAIN sessions
    THEN /\ resp' = complete_reply(404, "Upload session not found", upload_id)
         /\ Unchanged_db
         /\ UNCHANGED <<sessions, nextSid, disk, chunk_refs, reqs, tasks, sent>>
    ELSE IF sessions[upload_id].user # user
    THEN /\ resp' = complete_reply(403, "Unauthorized", upload_id)
         /\ Unchanged_db
         /\ UNCHANGED <<sessions, nextSid, disk, chunk_refs, reqs, tasks, sent>>
    ELSE IF is_incomplete(sessions[upload_id])
    THEN /\ resp' = [complete_reply(200, "incomplete", upload_id)
                       EXCEPT !.missing = missing_chunks(sessions[upload_id])]
         /\ Unchanged_db
         /\ UNCHANGED <<sessions, nextSid, disk, chunk_refs, reqs, tasks, sent>>
    ELSE
      LET session == sessions[upload_id]
          orig == IF enable_dedup(session) THEN original_data(disk, session, upload_id)
                  ELSE [ok |-> TRUE, data |-> <<>>]
          cross == enable_cross_user_dedup
          file_data == orig.data
          file_id == nextFid
          entries == dedup_entries(blocks, files, cross, file_data, user)
          table == dedup_increments(blocks, files, cross, file_data, user)
          target == existing_file(files, cross, calculate_block_hash(file_data), user)
          actual_saved == IF target # 0 THEN session.size ELSE saved_size(entries)
          accepted == accepted_plaintext(session, upload_id)
      IN
      IF ~orig.ok
      THEN /\ resp' = complete_reply(500, "Internal Server Error", upload_id)
           /\ Unchanged_db
           /\ UNCHANGED <<sessions, nextSid, disk, chunk_refs, reqs, tasks, sent>>
      ELSE IF enable_dedup(session) /\ file_data # <<>> /\ dedup = "raised_after_commit"
      THEN
        \* the pipeline committed and the originals were removed; the rest of
        \* the try block raised at redis_client.delete (upload.py:500), and the
        \* handler went on to store the file a second time (upload.py:535-618)
        /\ nextFid + 1 <= MaxFiles
        /\ nextFid' = nextFid + 2
        /\ plain' = Put(Put(plain, file_id, accepted), file_id + 1, accepted)
        /\ sessions' = Del(sessions, upload_id)
        /\ ttl' = Del(ttl, upload_id)
        /\ blocks' = IF target # 0 THEN table ELSE table \o new_block_rows(entries)
        /\ cas' = IF target # 0 THEN cas
                   ELSE store_new_blocks(cas, SelectSeq(entries, is_new))
        /\ files' = Put(Put(files, file_id,
                            IF target # 0
                            THEN reference_row(user, file_data, target, files[target])
                            ELSE content_addressed_row(user, file_data, entries, file_id)),
                        file_id + 1, plain_row(user, session, upload_id))
        /\ disk' = remove_originals(disk, session)
        /\ users' = [users EXCEPT
                        ![user].used = @ + (session.size - actual_saved) + session.size]
        /\ resp' = [complete_reply(200, "success", file_id + 1)
                      EXCEPT !.strategy = session.strategy]
        /\ UNCHANGED <<nextSid, chunk_refs, reqs, tasks, sent, activity, settings, txns>>
      ELSE
        /\ nextFid <= MaxFiles
        /\ nextFid' = nextFid + 1
        /\ plain' = Put(plain, file_id, accepted)
        /\ sessions' = Del(sessions, upload_id)
        /\ ttl' = Del(ttl, upload_id)
        /\ IF enable_dedup(session) /\ file_data # <<>> /\ dedup = "stored"
           THEN /\ blocks' = IF target # 0 THEN table
                              ELSE table \o new_block_rows(entries)
                /\ cas' = IF target # 0 THEN cas
                           ELSE store_new_blocks(cas, SelectSeq(entries, is_new))
                /\ files' = Put(files, file_id,
                        IF target # 0
                        THEN reference_row(user, file_data, target, files[target])
                        ELSE content_addressed_row(user, file_data, entries, file_id))
                /\ disk' = remove_originals(disk, session)
                /\ users' = [users EXCEPT ![user].used = @ + (session.size - actual_saved)]
                /\ resp' = [complete_reply(200, "success", file_id)
                              EXCEPT !.strategy = "deduplicated",
                                     !.dedup_status = IF target # 0 THEN "full_duplicate"
                                                      ELSE "stored_with_dedup",
                                     !.dedup_ratio = IF target # 0 THEN 100
                                                     ELSE dedup_ratio(entries)]
           ELSE /\ files' = Put(files, file_id, plain_row(user, session, upload_id))
                /\ users' = [users EXCEPT ![user].used = @ + session.size]
                /\ resp' = [complete_reply(200, "success", file_id)
                              EXCEPT !.strategy = session.strategy]
                /\ cas' = IF /\ enable_dedup(session) /\ file_data # <<>>
                              /\ dedup = "raised_late" /\ target = 0
                           THEN store_new_blocks(cas, SelectSeq(entries, is_new))
                           ELSE cas
                /\ UNCHANGED <<blocks, disk>>
        /\ UNCHANGED <<nextSid, chunk_refs, reqs, tasks, sent, activity, settings, txns>>

\* ---- POST /upload/complete/{upload_id}, statement by statement ------------
\* store_deduplicated_file awaits the database and the file system, so other
\* requests run between its statements.  The database session is READ
\* COMMITTED: a SELECT sees the committed rows, the UPDATE ... reference_count
\* + 1 of a row is relative and takes effect with the commit, and the added
\* rows appear with the commit.
\* store_begin: complete_upload up to the end of the analysis (the boundaries,
\* the block lookups, the full-file lookup).  hits[k] is the row found for
\* block k, 0 if none; pending are the new blocks not yet stored.
store_begin(user, upload_id) ==
    /\ upload_id \in DOMAIN sessions
    /\ sessions[upload_id].user = user
    /\ ~is_incomplete(sessions[upload_id])
    /\ enable_dedup(sessions[upload_id])
    /\ \A t \in txns : t.upload_id # upload_id
    /\ LET session == sessions[upload_id]
           orig == original_data(disk, session, upload_id)
           cross == enable_cross_user_dedup
           file_data == orig.data
           entries == dedup_entries(blocks, files, cross, file_data, user)
       IN /\ orig.ok /\ file_data # <<>>
          /\ txns' = txns \cup
                {[user |-> user, upload_id |-> upload_id, file_data |-> file_data,
                  entries |-> entries,
                  hits |-> [k \in 1..Len(entries) |->
                              existing_block(blocks, files, cross, entries[k].hash, user)],
                  target |-> existing_file(files, cross,
                                           calculate_block_hash(file_data), user),
                  pending |-> SelectSeq(entries, is_new),
                  phase |-> "exists"]}
    /\ UNCHANGED <<users, sessions, nextSid, disk, cas, files, nextFid, blocks,
                   chunk_refs, reqs, tasks, resp, sent, plain, activity, settings, ttl>>

\* one statement of the loop over new_blocks (deduplication_enhanced.py:274-
\* 323): os.path.exists(content_path); aiofiles.open(content_path, 'wb'), which
\* creates the file or truncates it to no bytes; f.write(block_to_store)
store_block_step(t) ==
    /\ t \in txns /\ t.target = 0 /\ t.pending # <<>>
    /\ LET h == Head(t.pending).hash
           empty_file == [block_to_store(<<>>) EXCEPT !.nonce = NoHash]
       IN IF t.phase = "exists"
          THEN /\ txns' = (txns \ {t}) \cup
                     {IF h \in DOMAIN cas THEN [t EXCEPT !.pending = Tail(@)]
                      ELSE [t EXCEPT !.phase = "open"]}
               /\ UNCHANGED cas
          ELSE IF t.phase = "open"
          THEN /\ txns' = (txns \ {t}) \cup {[t EXCEPT !.phase = "write"]}
               /\ cas' = Put(cas, h, empty_file)
          ELSE /\ txns' = (txns \ {t}) \cup
                     {[t EXCEPT !.pending = Tail(@), !.phase = "exists"]}
               /\ cas' = Put(cas, h, block_to_store(h.sha))
    /\ UNCHANGED <<users, sessions, nextSid, disk, files, nextFid, blocks, chunk_refs,
                   reqs, tasks, resp, sent, plain, activity, settings, ttl>>

\* db.add(new_file), db.add(content_block) ..., await db.commit(), and the rest
\* of complete_upload (upload.py:452-502, 596-640)
store_commit(t) ==
    /\ t \in txns /\ (t.target # 0 \/ t.pending = <<>>)
    /\ t.upload_id \in DOMAIN sessions
    /\ nextFid <= MaxFiles
    /\ LET session == sessions[t.upload_id]
           file_id == nextFid
           table == [i \in 1..Len(blocks) |->
                       increment_reference(blocks[i],
                           Cardinality({k \in 1..Len(t.hits) : t.hits[k] = i}))]
           actual_saved == IF t.target # 0 THEN session.size ELSE saved_size(t.entries)
       IN /\ nextFid' = nextFid + 1
          /\ plain' = Put(plain, file_id, accepted_plaintext(session, t.upload_id))
          /\ sessions' = Del(sessions, t.upload_id)
          /\ ttl' = Del(ttl, t.upload_id)
          /\ blocks' = IF t.target # 0 THEN table
                       ELSE table \o new_block_rows(t.entries)
          /\ files' = Put(files, file_id,
                  IF t.target # 0
                  THEN reference_row(t.user, t.file_data, t.target, files[t.target])
                  ELSE content_addressed_row(t.user, t.file_data, t.entries, file_id))
          /\ disk' = remove_originals(disk, session)
          /\ users' = [users EXCEPT ![t.user].used = @ + (session.size - actual_saved)]
          /\ resp' = [complete_reply(200, "success", file_id)
                        EXCEPT !.strategy = "deduplicated",
                               !.dedup_status = IF t.target # 0 THEN "full_duplicate"
                                                ELSE "stored_with_dedup",
                               !.dedup_ratio = IF t.target # 0 THEN 100
                                               ELSE dedup_ratio(t.entries)]
    /\ txns' = txns \ {t}
    /\ UNCHANGED <<nextSid, cas, chunk_refs, reqs, tasks, sent, activity, settings>>

\* ---- DELETE /files/{file_id} ----------------------------------------------
\* redis DECR chunk:refs:<hash> for every hash of chunk_info["chunks"]; the
\* chunk:<hash> entries are written by the stream worker only, so the handler
\* finds none and removes nothing from disk.
RECURSIVE decr_all(_, _)
decr_all(refs, hashes) ==
    IF hashes = <<>> THEN refs
    ELSE LET h == Head(hashes) IN
         decr_all(Put(refs, h, (IF h \in DOMAIN refs THEN refs[h] ELSE 0) - 1),
                  Tail(hashes))

delete_file(user, file_id) ==
    IF file_id \notin DOMAIN files \/ files[file_id].user_id # user
    THEN /\ resp' = Response("delete", 404, "File not found", file_id, 0)
         /\ UNCHANGED <<users, sessions, nextSid, disk, cas, files, nextFid, blocks,
                        chunk_refs, reqs, tasks, sent, plain, activity, settings, ttl, txns>>
    ELSE
      LET file_obj == files[file_id] IN
      /\ disk' = IF file_obj.storage_type = "single"
                    /\ file_obj.object_path # NoPath
                    /\ file_obj.object_path \in DOMAIN disk
                 THEN Del(disk, file_obj.object_path) ELSE disk
      /\ chunk_refs' = IF file_obj.storage_type \notin {"inline", "single"}
                          /\ file_obj.chunk_info.present
                       THEN decr_all(chunk_refs, file_obj.chunk_info.chunks)
                       ELSE chunk_refs
      /\ users' = [users EXCEPT ![user].used = @ - file_obj.file_size]
      /\ files' = Del(files, file_id)
      /\ resp' = [Response("delete", 200, "success", file_id, 0)
                    EXCEPT !.bytes = file_obj.file_size]
      /\ UNCHANGED <<sessions, nextSid, cas, nextFid, blocks, reqs, tasks, sent, plain, activity, settings, ttl, txns>>

\* ---- POST /deduplication/gc --------------------------------------------------
\* garbage_collect: of the rows with reference_count <= 0, those whose hash no
\* File manifest contains are deleted with their block file; the others get
\* the number of referencing File rows as their count.
manifest_references(objects, block_hash) ==
    Cardinality({f \in DOMAIN objects :
        \E k \in 1..Len(objects[f].chunk_info.blocks) :
            objects[f].chunk_info.blocks[k].hash = block_hash})

\* a collection that trusts the counter and takes a single reference for none
is_garbage_by_count(objects, row) == row.reference_count <= 1
is_garbage(objects, row) ==
    row.reference_count <= 0 /\ manifest_references(objects, row.block_hash) = 0

collected_rows(objects, table) ==
    LET kept == {i \in 1..Len(table) : ~is_garbage(objects, table[i])}
        nth(k) == CHOOSE i \in kept : Cardinality({j \in kept : j < i}) = k - 1
    IN [k \in 1..Cardinality(kept) |->
           IF table[nth(k)].reference_count <= 0
           THEN [table[nth(k)] EXCEPT
                   !.reference_count = manifest_references(objects, table[nth(k)].block_hash)]
           ELSE table[nth(k)]]

collected_store(objects, table, store) ==
    [h \in DOMAIN store \ {table[i].block_hash :
                                i \in {j \in 1..Len(table) : is_garbage(objects, table[j])}}
        |-> store[h]]

\* the request of an administrator starts the collection; any other user is
\* refused
run_garbage_collection(is_admin) ==
    IF ~is_admin
    THEN /\ resp' = Response("gc", 403, "Admin access required", 0, 0)
         /\ UNCHANGED <<users, sessions, nextSid, disk, cas, files, nextFid, blocks,
                        chunk_refs, reqs, tasks, sent, plain, activity, settings, ttl, txns>>
    ELSE /\ resp' = Response("gc", 200, "gc_initiated", 0, 0)
         /\ blocks' = collected_rows(files, blocks)
         /\ cas' = collected_store(files, blocks, cas)
         /\ UNCHANGED <<users, sessions, nextSid, disk, files, nextFid,
                        chunk_refs, reqs, tasks, sent, plain, activity, settings, ttl, txns>>

\* ---- GET, HEAD /files/{file_id}/download ----------------------------------
\* files.py:266 and :318 read file_obj.metadata: on a declarative row that is
\* the schema MetaData object (the JSON column is file_metadata), which is
\* truthy and has no get(): the inline and single branches raise.
metadata_get_raises == TRUE

\* A Range header, as RANGE_RE = bytes=(\d*)-(\d*) sees it: whether the
\* pattern matches at the start of the value, the two groups (-1 for an empty
\* group) and whether text follows the match ("bytes=0-0,5-9").
NoRange == [present |-> FALSE, matched |-> FALSE, start_str |-> -1, end_str |-> -1,
            rest |-> FALSE]
RangeHeader(start_str, end_str) ==
    [present |-> TRUE, matched |-> TRUE, start_str |-> start_str, end_str |-> end_str,
     rest |-> FALSE]
\* "bytes=abc", "items=0-1"
UnmatchedRange == [NoRange EXCEPT !.present = TRUE]

max(a, b) == IF a > b THEN a ELSE b
min(a, b) == IF a < b THEN a ELSE b

\* kind "none": no range (the whole file); "range": start..end inclusive;
\* "invalid": 416 without headers; "unsatisfiable": 416 with Content-Range
parse_range_header(range_header, file_size) ==
    LET none == [kind |-> "none", start |-> 0, end |-> file_size - 1]
        invalid == [none EXCEPT !.kind = "invalid"]
        start_str == range_header.start_str
        end_str == range_header.end_str
        start == IF start_str = -1 THEN max(0, file_size - end_str) ELSE start_str
        end == IF start_str = -1 \/ end_str = -1 THEN file_size - 1 ELSE end_str
    IN
    IF ~range_header.present THEN none
    ELSE IF ~range_header.matched THEN invalid
    ELSE IF start_str = -1 /\ end_str = -1 THEN invalid
    ELSE IF start_str = -1 /\ end_str = 0 THEN none
    ELSE IF start > end \/ start >= file_size
    THEN [kind |-> "unsatisfiable", start |-> start, end |-> end]
    ELSE [kind |-> "range", start |-> start, end |-> min(end, file_size - 1)]

\* stream_chunked_range(file_obj, start, end, ...): what the generator emits,
\* as the bytes [skip, skip + bytes) of data.  ok is FALSE when it raises (no
\* chunks, a chunk missing, failing authentication or not decompressible);
\* the bytes of the earlier chunks have been sent by then.
RECURSIVE stream_chunked_range(_, _, _, _, _, _)
stream_chunked_range(store, file_obj, start, end, chunk_idx, current_pos) ==
    LET raised == [ok |-> FALSE, data |-> <<>>, skip |-> 0, bytes |-> 0]
        done == [raised EXCEPT !.ok = TRUE]
    IN
    IF file_obj.chunk_info.count = 0 THEN raised
    ELSE IF chunk_idx >= file_obj.chunk_info.count THEN done
    ELSE
      LET path == IF chunk_idx \in DOMAIN file_obj.chunk_info.paths
                  THEN file_obj.chunk_info.paths[chunk_idx]
                  ELSE ChunkPath(file_obj.chunk_info.upload_id, chunk_idx)
      IN
      IF path \notin DOMAIN store THEN raised
      ELSE IF ~decrypt_ok(store[path], file_obj.encryption_key, chunk_idx) THEN raised
      ELSE IF file_obj.chunk_info.compressed /\ compressor_decompress_raises THEN raised
      ELSE
        LET chunk == store[path].body
            chunk_size == ByteLen(chunk)
            chunk_end == current_pos + chunk_size - 1
            slice_start == max(0, start - current_pos)
            slice_end == min(chunk_size, end - current_pos + 1)
            rest == stream_chunked_range(store, file_obj, start, end, chunk_idx + 1,
                                         current_pos + chunk_size)
        IN
        IF chunk_end < start THEN rest
        ELSE IF current_pos > end THEN done
        ELSE IF slice_start < slice_end
        THEN [ok |-> rest.ok, data |-> chunk \o rest.data, skip |-> slice_start,
              bytes |-> (slice_end - slice_start) + rest.bytes]
        ELSE rest

\* the body is the bytes [skip, skip + bytes) of data
download_reply(code, status, file_id, data, bytes) ==
    [Response("download", code, status, file_id, 0) EXCEPT !.body = data, !.bytes = bytes]

\* a 200 or 206 answer to a GET: Content-Range on a range request, and the
\* Content-Length header
ranged_reply(parsed, status, file_id, total_size, data, skip, bytes, content_length) ==
    [download_reply(IF parsed.kind = "range" THEN 206 ELSE 200, status, file_id,
                    data, bytes)
        EXCEPT !.skip = skip,
               !.content_range = IF parsed.kind = "range"
                                 THEN <<parsed.start, parsed.end, total_size>>
                                 ELSE <<>>,
               !.content_length = content_length]

\* len(data[start:end + 1])
slice_len(data, start, end) == max(0, min(ByteLen(data), end + 1) - min(ByteLen(data), start))

\* the answer of the storage type branches (files.py:258-393)
download_body(store, file_obj, file_id, parsed) ==
    LET total_size == file_obj.file_size
        error == download_reply(500, "Internal Server Error", file_id, <<>>, 0)
    IN
    IF file_obj.storage_type = "inline"
    THEN IF ~decrypt_ok(file_obj.storage_key, file_obj.encryption_key, -1)
            \/ metadata_get_raises
         THEN error
         ELSE LET data == file_obj.storage_key.body
                  n == IF parsed.kind = "range"
                       THEN slice_len(data, parsed.start, parsed.end) ELSE ByteLen(data)
              IN ranged_reply(parsed, "ok", file_id, total_size, data,
                              IF parsed.kind = "range" THEN parsed.start ELSE 0, n, n)
    ELSE IF file_obj.storage_type = "single"
    THEN IF file_obj.object_path \notin DOMAIN store
         THEN download_reply(404, "File not found on disk", file_id, <<>>, 0)
         ELSE IF ~decrypt_ok(store[file_obj.object_path], file_obj.encryption_key, -1)
                 \/ metadata_get_raises
         THEN error
         ELSE LET data == store[file_obj.object_path].body IN
              ranged_reply(parsed, "ok", file_id, total_size, data,
                           IF parsed.kind = "range" THEN parsed.start ELSE 0,
                           IF parsed.kind = "range"
                           THEN slice_len(data, parsed.start, parsed.end) ELSE ByteLen(data),
                           IF parsed.kind = "range" THEN parsed.end - parsed.start + 1
                           ELSE total_size)
    ELSE IF file_obj.storage_type = "chunked"
    THEN LET out == stream_chunked_range(store, file_obj, parsed.start, parsed.end, 0, 0)
         IN ranged_reply(parsed, IF out.ok THEN "ok" ELSE "aborted", file_id, total_size,
                         out.data, out.skip, out.bytes,
                         IF parsed.kind = "range" THEN parsed.end - parsed.start + 1
                         ELSE total_size)
    ELSE download_reply(500, "Unknown storage type", file_id, <<>>, 0)

download_file(user, file_id, method, range_header) ==
    IF file_id \notin DOMAIN files \/ files[file_id].user_id # user
    THEN /\ resp' = download_reply(404, "File not found", file_id, <<>>, 0)
         /\ UNCHANGED <<users, sessions, nextSid, disk, cas, files, nextFid, blocks,
                        chunk_refs, reqs, tasks, sent, plain, activity, settings, ttl, txns>>
    ELSE
      LET file_obj == files[file_id]
          total_size == file_obj.file_size
          parsed == parse_range_header(range_header, total_size)
      IN
      IF method = "HEAD"
      THEN /\ resp' = [download_reply(200, "ok", file_id, <<>>, 0)
                         EXCEPT !.op = "head", !.content_length = total_size]
           /\ UNCHANGED <<users, sessions, nextSid, disk, cas, files, nextFid, blocks,
                          chunk_refs, reqs, tasks, sent, plain, activity, settings, ttl, txns>>
      ELSE IF parsed.kind = "invalid"
      THEN /\ resp' = download_reply(416, "Invalid Range header", file_id, <<>>, 0)
           /\ UNCHANGED <<users, sessions, nextSid, disk, cas, files, nextFid, blocks,
                          chunk_refs, reqs, tasks, sent, plain, activity, settings, ttl, txns>>
      ELSE IF parsed.kind = "unsatisfiable"
      THEN /\ resp' = [download_reply(416, "Range Not Satisfiable", file_id, <<>>, 0)
                         EXCEPT !.content_range = <<-1, -1, total_size>>]
           /\ UNCHANGED <<users, sessions, nextSid, disk, cas, files, nextFid, blocks,
                          chunk_refs, reqs, tasks, sent, plain, activity, settings, ttl, txns>>
      ELSE
        /\ file_obj.last_accessed < MaxDownloads
        /\ files' = [files EXCEPT ![file_id].last_accessed = @ + 1]
        /\ activity' = Put(activity, file_id,
                           (IF file_id \in DOMAIN activity THEN activity[file_id] ELSE 0) + 1)
        /\ resp' = download_body(disk, file_obj, file_id, parsed)
        /\ UNCHANGED <<users, sessions, nextSid, disk, cas, nextFid, blocks,
                       chunk_refs, reqs, tasks, sent, plain, settings, ttl, txns>>

\* ---- POST /storage/optimize --------------------------------------------------
\* the redis keys chunk:<hash> -> {path, tier}: StorageService.save_chunk
\* alone sets them (services/storage.py:119), and no upload endpoint calls it
chunk_registry == EmptyMap

\* StorageService.move_to_tier: the storage after the call
move_to_tier(store, chunk_hash, target_tier) ==
    IF chunk_hash \notin DOMAIN chunk_registry THEN store
    ELSE IF chunk_registry[chunk_hash].tier = target_tier THEN store
    ELSE LET old_path == chunk_registry[chunk_hash].path IN
         Put(Del(store, old_path), <<target_tier, chunk_hash, 0>>, store[old_path])

RECURSIVE move_chunks(_, _, _)
move_chunks(store, hashes, target_tier) ==
    IF hashes = <<>> THEN store
    ELSE move_chunks(move_to_tier(store, Head(hashes), target_tier), Tail(hashes),
                     target_tier)

\* the tier the loop body gives a row, "" where it leaves the row alone;
\* hours: the time since the last access, of which
\* (datetime.utcnow() - file.last_accessed).days is the whole days
next_tier(row, hours) ==
    LET age_days == hours \div 24 IN
    IF age_days > 30 /\ row.storage_tier = "cache" THEN "warm"
    ELSE IF age_days > 90 /\ row.storage_tier = "warm" THEN "cold"
    ELSE ""

\* the background task of the request; age: file id -> hours since the last
\* access.  file.chunk_info.get raises on a row without chunk_info (inline,
\* single, deduplicated_reference): the task ends before its commit.
RECURSIVE optimize_store(_, _, _, _)
optimize_store(store, objects, ids, age) ==
    IF ids = {} THEN store
    ELSE LET f == CHOOSE g \in ids : \A h \in ids : g <= h
             t == next_tier(objects[f], age[f])
         IN optimize_store(
                IF t = "" THEN store
                ELSE move_chunks(store, objects[f].chunk_info.chunks, t),
                objects, ids \ {f}, age)

optimize_user_storage(user_id, age) ==
    LET mine == {f \in DOMAIN files : files[f].user_id = user_id}
        raises == \E f \in mine :
                     next_tier(files[f], age[f]) # "" /\ ~files[f].chunk_info.present
    IN
    /\ resp' = Response("optimize", 200, "optimization started", 0, 0)
    /\ disk' = optimize_store(disk, files, mine, age)
    /\ files' = IF raises THEN files
                ELSE [f \in DOMAIN files |->
                        IF f \in mine /\ next_tier(files[f], age[f]) # ""
                        THEN [files[f] EXCEPT !.storage_tier = next_tier(files[f], age[f])]
                        ELSE files[f]]
    /\ UNCHANGED <<users, sessions, nextSid, cas, nextFid, blocks, chunk_refs,
                   reqs, tasks, sent, plain, activity, settings, ttl, txns>>

\* ---- the storage under the service ----------------------------------------
\* a byte of a stored frame is changed by something other than the service
tamper(path) ==
    /\ path \in DOMAIN disk
    /\ disk[path].intact
    /\ disk' = [disk EXCEPT ![path].intact = FALSE]
    /\ UNCHANGED <<users, sessions, nextSid, cas, files, nextFid, blocks, chunk_refs,
                   reqs, tasks, resp, sent, plain, activity, settings, ttl, txns>>

\* the file of a block that has rows in the table is removed by something
\* other than a writer (the only unlink of the service is garbage_collect's)
lose_block(h) ==
    /\ h \in DOMAIN cas
    /\ \E i \in 1..Len(blocks) : blocks[i].block_hash = h
    /\ sessions = EmptyMap
    /\ cas' = Del(cas, h)
    /\ UNCHANGED <<users, sessions, nextSid, disk, files, nextFid, blocks, chunk_refs,
                   reqs, tasks, resp, sent, plain, activity, settings, ttl, txns>>

\* the session cache as seconds pass: the lifetime a SETEX gave a key runs
\* down, and a key whose lifetime is over is gone
elapse(seconds) ==
    /\ DOMAIN sessions # {}
    /\ ttl' = [sid \in DOMAIN ttl |->
                 IF sid \in DOMAIN sessions THEN max(0, ttl[sid] - seconds) ELSE ttl[sid]]
    /\ sessions' = [sid \in {x \in DOMAIN sessions : ttl[x] > seconds} |-> sessions[sid]]
    /\ UNCHANGED <<users, nextSid, disk, cas, files, nextFid, blocks, chunk_refs,
                   reqs, tasks, resp, sent, plain, activity, settings, txns>>

\* ---- the requests the clients make ----------------------------------------
\* the content a client uploads for a declared size
DirectSizes == {100 * 1024, 5 * MiB, 12 * MiB}
DirectPayloads(file_size) ==
    IF file_size = 100 * 1024 THEN {<<1>>}
    ELSE IF file_size = 5 * MiB THEN {<<2>>}
    ELSE {<<3, 4>>, <<4, 3>>}
ChunkedSizes == {56 * MiB}
ChunkPayload(index) == IF index = 0 THEN <<5, 5, 5, 5>> ELSE <<6, 6, 6>>

SessionIds == 1..MaxSessions
FileIds == 1..MaxFiles
ChunkIndices == 0..MaxIndex

Complete ==
    \E u \in Users, sid \in SessionIds, x \in DedupOutcomes : complete_upload(u, sid, x)
Delete == \E u \in Users, f \in FileIds : delete_file(u, f)
\* GET without a Range header
Download == \E u \in Users, f \in FileIds : download_file(u, f, "GET", NoRange)

\* direct uploads: inline and single sessions of both users
InitDirect ==
    \E u \in Users, n \in FileNames \cup {""}, z \in DirectSizes : init_upload(u, n, z)
Direct ==
    \E u \in Users, sid \in DOMAIN sessions :
        \E d \in DirectPayloads(sessions[sid].size) : upload_direct(u, sid, d)
DirectMissing ==
    \E u \in Users, sid \in SessionIds \ DOMAIN sessions : upload_direct(u, sid, <<1>>)

Next ==
    \/ InitDirect
    \/ Direct
    \/ DirectMissing
    \/ Complete
    \/ Delete
    \/ Download

Spec == Init /\ [][Next]_vars

\* quota accounting: sessions are opened, completed and their files deleted
NextQuota ==
    \/ InitDirect
    \/ Complete
    \/ Delete

SpecQuota == Init /\ [][NextQuota]_vars

\* chunked uploads: the sessions of u1, with u2 knocking
InitChunked ==
    /\ nextSid <= MaxChunkSessions
    /\ \E n \in FileNames, z \in ChunkedSizes \cup {100 * 1024} : init_upload("u1", n, z)
ChunkRead ==
    \E u \in Users, sid \in 1..MaxChunkSessions, i \in ChunkIndices :
        upload_chunk_read(u, sid, i, ChunkPayload(i))
CompleteChunked ==
    \E u \in Users, sid \in 1..MaxChunkSessions, x \in DedupOutcomes :
        complete_upload(u, sid, x)
ChunkWrite == \E r \in reqs : upload_chunk_write(r)
ChunkSetex == \E t \in tasks : upload_chunk_setex(t)

NextChunk ==
    \/ InitChunked
    \/ ChunkRead
    \/ ChunkWrite
    \/ ChunkSetex
    \/ CompleteChunked

SpecChunk == Init /\ [][NextChunk]_vars

\* downloads: one client uploads its files request after request, and both
\* users GET and HEAD them with and without Range headers
RangeSizes == {100 * 1024, 5 * MiB, 56 * MiB}
RangeHeaders ==
    {NoRange, UnmatchedRange, RangeHeader(-1, -1), RangeHeader(-1, 0),
     RangeHeader(-1, 1), RangeHeader(-1, 96 * MiB), RangeHeader(0, 0),
     RangeHeader(1, 8 * MiB), RangeHeader(32 * MiB - 1, 32 * MiB),
     RangeHeader(40 * MiB, -1), RangeHeader(5, 2), RangeHeader(96 * MiB, -1),
     RangeHeader(50 * MiB, 96 * MiB), [RangeHeader(0, 0) EXCEPT !.rest = TRUE]}
InitRange ==
    /\ nextSid <= MaxRangeSessions
    /\ \E n \in FileNames, z \in RangeSizes : init_upload("u1", n, z)
DirectRange ==
    \E sid \in DOMAIN sessions :
        \E d \in DirectPayloads(sessions[sid].size) : upload_direct("u1", sid, d)
ChunkReadRange ==
    /\ reqs = {} /\ tasks = {}
    /\ \E sid \in DOMAIN sessions :
          \E i \in 0..(sessions[sid].chunks - 1) :
              upload_chunk_read("u1", sid, i, ChunkPayload(i))
CompleteRange ==
    \E sid \in DOMAIN sessions, x \in DedupOutcomes : complete_upload("u1", sid, x)
DownloadRange ==
    \E u \in Users, f \in FileIds, m \in {"GET", "HEAD"}, h \in RangeHeaders :
        download_file(u, f, m, h)

NextRange ==
    \/ InitRange
    \/ DirectRange
    \/ ChunkReadRange
    \/ ChunkWrite
    \/ ChunkSetex
    \/ CompleteRange
    \/ DownloadRange

SpecRange == Init /\ [][NextRange]_vars

\* block lifetime: one user's deduplicated files are stored and deleted, and
\* the collection runs in between
InitGC == init_upload("u1", "a.bin", 12 * MiB)
DirectGC ==
    \E sid \in DOMAIN sessions :
        \E d \in DirectPayloads(sessions[sid].size) : upload_direct("u1", sid, d)
CompleteGC ==
    \E sid \in DOMAIN sessions, x \in DedupOutcomes : complete_upload("u1", sid, x)
DeleteGC == \E f \in FileIds : delete_file("u1", f)
GC == \E is_admin \in BOOLEAN : run_garbage_collection(is_admin)

NextGC ==
    \/ InitGC
    \/ DirectGC
    \/ CompleteGC
    \/ DeleteGC
    \/ GC

SpecGC == Init /\ [][NextGC]_vars

\* integrity: a chunked file is uploaded request after request, stored
\* frames are tampered with, and the owner reads the file
InitTamper ==
    /\ nextSid <= MaxRangeSessions
    /\ \E n \in FileNames : init_upload("u1", n, 56 * MiB)
Tamper == \E path \in DOMAIN disk : tamper(path)
DownloadTamper ==
    \E f \in FileIds, h \in {NoRange, RangeHeader(40 * MiB, -1)} :
        download_file("u1", f, "GET", h)

NextTamper ==
    \/ InitTamper
    \/ ChunkReadRange
    \/ ChunkWrite
    \/ ChunkSetex
    \/ CompleteRange
    \/ Tamper
    \/ DownloadTamper

SpecTamper == Init /\ [][NextTamper]_vars

\* session lifetime: one upload, request after request, while time passes;
\* a scheduled session write runs before the next period of time is over
NextTTL ==
    \/ InitRange
    \/ DirectRange
    \/ ChunkReadRange
    \/ ChunkWrite
    \/ ChunkSetex
    \/ CompleteRange
    \/ tasks = {} /\ elapse(TickSeconds)

SpecTTL == Init /\ [][NextTTL]_vars

\* tiering: one upload, request after request, and optimisation runs at
\* various times after the file's last access
AgeHours == {0, 30 * 24 + 12, 31 * 24, 91 * 24}

NextTier ==
    \/ InitRange
    \/ DirectRange
    \/ ChunkReadRange
    \/ ChunkWrite
    \/ ChunkSetex
    \/ CompleteRange
    \/ \E u \in Users, age \in [FileIds -> AgeHours] : optimize_user_storage(u, age)

SpecTier == Init /\ [][NextTier]_vars

\* deduplicated storage: both users store files above the deduplication
\* threshold, one upload after the other and request after request, in a
\* deployment with or without cross-user deduplication
DedupSizes == {12 * MiB, 56 * MiB}
InitDedup ==
    /\ DOMAIN sessions = {}
    /\ \E u \in Users, z \in DedupSizes : init_upload(u, "a.bin", z)
DirectDedup ==
    \E sid \in DOMAIN sessions :
        \E d \in DirectPayloads(sessions[sid].size) :
            upload_direct(sessions[sid].user, sid, d)
ChunkReadDedup ==
    /\ reqs = {} /\ tasks = {}
    /\ \E sid \in DOMAIN sessions :
          \E i \in 0..(sessions[sid].chunks - 1) :
              upload_chunk_read(sessions[sid].user, sid, i, ChunkPayload(i))
CompleteDedup ==
    \E sid \in DOMAIN sessions, x \in DedupOutcomes :
        complete_upload(sessions[sid].user, sid, x)

NextDedup ==
    \/ InitDedup
    \/ DirectDedup
    \/ ChunkReadDedup
    \/ ChunkWrite
    \/ ChunkSetex
    \/ CompleteDedup

SpecDedup == InitDeployed /\ [][NextDedup]_vars

\* init alone, on the sizes around the thresholds
BoundarySizes ==
    {0, 512 * 1024 - 1, 512 * 1024, 50 * MiB - 1, 50 * MiB, 64 * MiB, 64 * MiB + 1,
     96 * MiB}
InitBoundary ==
    \E u \in Users, n \in FileNames \cup {""}, z \in BoundarySizes : init_upload(u, n, z)
NextInit == InitBoundary
SpecInit == Init /\ [][NextInit]_vars

\* concurrent completions: two uploads above the deduplication threshold whose
\* completions run statement by statement, interleaved
NextRace ==
    \/ \E u \in Users : init_upload(u, "a.bin", 12 * MiB)
    \/ DirectDedup
    \/ \E sid \in DOMAIN sessions : store_begin(sessions[sid].user, sid)
    \/ \E t \in txns : store_block_step(t)
    \/ \E t \in txns : store_commit(t)
SpecRace == InitDeployed /\ [][NextRace]_vars

\* uploads above the deduplication threshold, one after the other, with
\* block files lost between them
NextLoss ==
    \/ sessions = EmptyMap /\ \E u \in Users : init_upload(u, "a.bin", 12 * MiB)
    \/ DirectDedup
    \/ CompleteDedup
    \/ \E h \in DOMAIN cas : lose_block(h)
SpecLoss == InitDeployed /\ [][NextLoss]_vars

\* direct uploads whose body need not have the length the session declared:
\* a client sends any of the payloads to any of its sessions
NextSize ==
    \/ \E u \in Users, z \in DirectSizes : init_upload(u, "a.bin", z)
    \/ \E u \in Users, sid \in DOMAIN sessions, z \in DirectSizes :
          \E d \in DirectPayloads(z) : upload_direct(u, sid, d)
    \/ \E sid \in DOMAIN sessions, x \in DedupOutcomes :
          complete_upload(sessions[sid].user, sid, x)

SpecSize == Init /\ [][NextSize]_vars

\* completions that fail: files above the deduplication threshold are stored
\* while the pipeline or a statement after it raises
NextFail ==
    \/ \E u \in Users : init_upload(u, "a.bin", 12 * MiB)
    \/ DirectDedup
    \/ \E sid \in DOMAIN sessions, x \in DedupOutcomes \cup {"raised_after_commit"} :
          complete_upload(sessions[sid].user, sid, x)
SpecFail == InitDeployed /\ [][NextFail]_vars

\* the chunker alone, on byte strings given by their length and by the
\* positions at which the rolling hash fires; the hash is a function of the
\* last window_size = 48 bytes, so positions further apart fire independently
DataLengths == {MiB, 2 * MiB, 3 * MiB, 9 * MiB, 20 * MiB}
FirePositions ==
    {MiB, 2 * MiB, 2 * MiB + 64, 3 * MiB, 5 * MiB, 8 * MiB, 12 * MiB - 1, 16 * MiB}
NextCDC ==
    \E n \in DataLengths, fires \in SUBSET FirePositions :
        /\ resp' = [Response("find_chunk_boundaries", 200, "", 0, 0)
                        EXCEPT !.body = find_chunk_boundaries(fires, n), !.bytes = n]
        /\ UNCHANGED <<users, sessions, nextSid, disk, cas, files, nextFid, blocks,
                       chunk_refs, sent, reqs, tasks, plain, activity, settings, ttl, txns>>
SpecCDC == Init /\ [][NextCDC]_vars

\* ==== the claims ==========================================================
\* the indices a session has recorded
received_indices(session) == {session.done[k] : k \in 1..Len(session.done)}

\* C1: after init, the uploads and a successful complete, the owner's
\* GET /files/{id}/download without Range returns exactly the plaintext the
\* session accepted, whatever the storage type of the File row.
C1_RoundTrip ==
    (/\ resp.op = "download"
     /\ resp.status # "File not found"
     /\ resp.id \in DOMAIN files
     /\ resp.id \in DOMAIN plain
     /\ plain[resp.id].all)
    => (/\ resp.code = 200
        /\ resp.status = "ok"
        /\ resp.body = plain[resp.id].data
        /\ resp.bytes = ByteLen(plain[resp.id].data))

\* the hashes of a File row's manifest
manifest_hashes(row) ==
    {row.chunk_info.blocks[k].hash : k \in 1..Len(row.chunk_info.blocks)}

\* C2: for every Block row, reference_count is the number of File rows whose
\* manifest contains the block's hash.
C2_ReferenceCount ==
    \A i \in 1..Len(blocks) :
        blocks[i].reference_count =
            Cardinality({f \in DOMAIN files : blocks[i].block_hash \in manifest_hashes(files[f])})

RECURSIVE sum_file_sizes(_, _)
sum_file_sizes(rows, ids) ==
    IF ids = {} THEN 0
    ELSE LET f == CHOOSE g \in ids : TRUE
         IN rows[f].file_size + sum_file_sizes(rows, ids \ {f})

\* C3: a user's storage_used is the sum of file_size over the user's File rows.
C3_UsedIsSumOfFiles ==
    \A u \in Users :
        users[u].used = sum_file_sizes(files, {f \in DOMAIN files : files[f].user_id = u})

\* C4: 0 <= used <= quota for every user in every reachable state.
C4_UsedWithinQuota ==
    \A u \in Users : 0 <= users[u].used /\ users[u].used <= users[u].quota

\* C5: an init with used + size > quota answers 413 and creates no session;
\* an init with used + size <= quota creates exactly one session, with an
\* empty received set.
C5_InitQuota ==
    [][\A u \in Users, n \in FileNames, z \in DirectSizes :
          init_upload(u, n, z) =>
             IF users[u].used + z > users[u].quota
             THEN /\ resp'.code = 413
                  /\ sessions' = sessions
             ELSE /\ resp'.code = 200
                  /\ resp'.id \notin DOMAIN sessions
                  /\ DOMAIN sessions' = DOMAIN sessions \cup {resp'.id}
                  /\ \A sid \in DOMAIN sessions : sessions'[sid] = sessions[sid]
                  /\ sessions'[resp'.id].user = u
                  /\ sessions'[resp'.id].size = z
                  /\ received_indices(sessions'[resp'.id]) = {}]_vars

\* C5 witness: after an init that created a session, whose upload was
\* completed into a file of u2, a further init was refused for quota
C5_Witness ==
    /\ resp.op = "init"
    /\ resp.code = 413
    /\ nextSid > 1
    /\ \E f \in DOMAIN files : files[f].user_id = "u2" /\ users["u2"].used > 0

\* ceil(size / 32 MiB), by search
ceil_chunks(size) ==
    CHOOSE k \in 0..8 : k * (32 * MiB) >= size /\ (k - 1) * (32 * MiB) < size

\* C6: the strategy is inline iff size < 512 KiB, single iff 512 KiB <= size
\* < 50 MiB, chunked otherwise; a chunked session has ceil(size / 32 MiB)
\* chunks of 32 MiB; direct_upload is true exactly when not chunked.
C6_Strategy ==
    /\ \A sid \in DOMAIN sessions :
          LET session == sessions[sid] IN
          /\ (session.strategy = "inline") = (session.size < 512 * 1024)
          /\ (session.strategy = "single") =
                (512 * 1024 <= session.size /\ session.size < 50 * MiB)
          /\ (session.strategy = "chunked") = (session.size >= 50 * MiB)
          /\ session.strategy = "chunked" => session.chunks = ceil_chunks(session.size)
    /\ (resp.op = "init" /\ resp.code = 200) =>
          /\ resp.id \in DOMAIN sessions
          /\ resp.strategy = sessions[resp.id].strategy
          /\ resp.direct = (resp.strategy # "chunked")
          /\ resp.strategy = "chunked" =>
                /\ resp.chunks = ceil_chunks(sessions[resp.id].size)
                /\ resp.chunk_size = 32 * MiB

\* C6 witness: sessions on both sides of a threshold and a chunked session
\* whose size is not a multiple of the chunk size
C6_Witness ==
    /\ \E sid \in DOMAIN sessions :
          sessions[sid].size = 64 * MiB + 1 /\ sessions[sid].chunks = 3
    /\ \E sid \in DOMAIN sessions :
          sessions[sid].size = 512 * 1024 /\ sessions[sid].strategy = "single"
    /\ resp.op = "init" /\ resp.code = 200

\* C7: in every session the received indices lie in [0, chunk_count): an
\* index outside it, or any index on an inline or single session, is never
\* recorded.
C7_IndicesInRange ==
    \A sid \in DOMAIN sessions :
        received_indices(sessions[sid]) \subseteq 0..(sessions[sid].chunks - 1)

\* C8: a chunk request of a chunked session, for an index of [0, chunk_count)
\* and bytes that an earlier request of the session was answered "success"
\* for, is answered already_uploaded: it is never taken up for processing
\* again.
C8_Idempotent ==
    [][\A r \in reqs' \ reqs :
          (r.session.strategy = "chunked" /\ r.index \in 0..(r.session.chunks - 1))
          => ~\E t \in sent : t[1] = r.id /\ t[2] = r.index /\ t[3] = r.data]_vars

\* C9: once the chunk requests of a chunked session have all returned and
\* their session writes are done, the stored session holds every index of
\* [0, chunk_count) that was answered "success", with its hash and its path.
C9_BothRecorded ==
    (reqs = {} /\ tasks = {}) =>
        \A t \in sent :
            (/\ t[1] \in DOMAIN sessions
             /\ sessions[t[1]].strategy = "chunked"
             /\ t[2] \in 0..(sessions[t[1]].chunks - 1)) =>
                LET session == sessions[t[1]] IN
                /\ t[2] \in received_indices(session)
                /\ t[2] \in DOMAIN session.chunk_paths
                /\ \E k \in 1..Len(session.hashes) : session.hashes[k] = sha256(t[3])

\* C10: a complete of a chunked session with an index of [0, chunk_count)
\* not received answers incomplete, lists exactly the indices not received,
\* and changes neither the File rows, nor used, nor the session.
C10_IncompleteRefused ==
    [][\A u \in Users, sid \in DOMAIN sessions, x \in DedupOutcomes :
          (/\ complete_upload(u, sid, x)
           /\ sessions[sid].user = u
           /\ sessions[sid].strategy = "chunked"
           /\ (0..(sessions[sid].chunks - 1)) \ received_indices(sessions[sid]) # {})
          => (/\ resp'.status = "incomplete"
              /\ resp'.missing =
                    (0..(sessions[sid].chunks - 1)) \ received_indices(sessions[sid])
              /\ files' = files
              /\ users' = users
              /\ sessions' = sessions)]_vars

\* the chunked sessions whose complete succeeded, and that were sent chunks
\* of [0, chunk_count) only
completed_uploads ==
    {plain[f].upload_id : f \in {g \in DOMAIN plain : plain[g].strategy = "chunked"}}
    \ {t[1] : t \in {q \in sent : q[2] \notin 0..(total_chunks(56 * MiB) - 1)}}

\* C11: after a complete of a session has succeeded, every later chunk
\* request and every later complete on that session id is answered 404 and
\* changes nothing: no request is taken up, no File row is created, used and
\* the session store stay as they are.
C11_CompletedSessionGone ==
    [][\A u \in Users, sid \in completed_uploads :
          (\/ \E x \in DedupOutcomes : complete_upload(u, sid, x)
           \/ \E i \in ChunkIndices : upload_chunk_read(u, sid, i, ChunkPayload(i)))
          => (/\ resp'.code = 404
              /\ reqs' = reqs
              /\ files' = files
              /\ users' = users
              /\ sessions' = sessions)]_vars

\* the bytes [lo, hi) of data, as the parts <<extent, from, to>> of its extents
RECURSIVE pieces(_, _, _)
pieces(data, lo, hi) ==
    IF data = <<>> \/ hi <= 0 THEN <<>>
    ELSE LET n == ExtentLen(Head(data)) IN
         (IF lo < n THEN <<<<Head(data), max(lo, 0), min(n, hi)>>>> ELSE <<>>)
         \o pieces(Tail(data), lo - n, hi - n)

\* the three satisfiable forms: bytes=a-b with a <= b and a < S, bytes=a-
\* with a < S, bytes=-n with n > 0
satisfiable(h, S) ==
    /\ h.present /\ h.matched /\ ~h.rest
    /\ \/ h.start_str >= 0 /\ h.end_str >= h.start_str /\ h.start_str < S
       \/ h.start_str >= 0 /\ h.end_str = -1 /\ h.start_str < S
       \/ h.start_str = -1 /\ h.end_str > 0
range_start(h, S) == IF h.start_str = -1 THEN max(0, S - h.end_str) ELSE h.start_str
range_end(h, S) ==
    IF h.start_str = -1 \/ h.end_str = -1 THEN S - 1 ELSE min(h.end_str, S - 1)

\* C12: for a File of size S > 0 whose session accepted the plaintext P, a GET
\* of the owner with a satisfiable Range is answered 206 with the body
\* P[start..end], Content-Range: bytes start-end/S and Content-Length
\* end - start + 1, whatever the storage type.
C12_RangeServed ==
    [][\A u \in Users, f \in DOMAIN files \cap DOMAIN plain, h \in RangeHeaders :
          (/\ download_file(u, f, "GET", h)
           /\ files[f].user_id = u
           /\ plain[f].all
           /\ files[f].file_size > 0
           /\ satisfiable(h, files[f].file_size))
          => LET S == files[f].file_size
                 start == range_start(h, S)
                 end == range_end(h, S)
             IN /\ resp'.code = 206
                /\ pieces(resp'.body, resp'.skip, resp'.skip + resp'.bytes)
                      = pieces(plain[f].data, start, end + 1)
                /\ resp'.content_range = <<start, end, S>>
                /\ resp'.content_length = end - start + 1]_vars

\* the headers that no byte of a file of size S satisfies: a first position
\* after the last, a first position at or after S, a suffix of length zero,
\* and the values that are not a byte range ("bytes=abc", "bytes=-")
unsatisfiable(h, S) ==
    /\ h.present /\ ~h.rest
    /\ \/ ~h.matched
       \/ h.start_str = -1 /\ h.end_str <= 0
       \/ h.start_str >= 0 /\ h.end_str >= 0 /\ h.start_str > h.end_str
       \/ h.start_str >= S

\* C13: a GET of the owner with an unsatisfiable Range is answered 416 with
\* Content-Range: bytes */size and no body.
C13_Unsatisfiable ==
    [][\A u \in Users, f \in DOMAIN files, h \in RangeHeaders :
          (/\ download_file(u, f, "GET", h)
           /\ files[f].user_id = u
           /\ unsatisfiable(h, files[f].file_size))
          => (/\ resp'.code = 416
              /\ resp'.content_range = <<-1, -1, files[f].file_size>>
              /\ resp'.bytes = 0)]_vars

\* C20: a HEAD and a GET answered 416 leave last_accessed as it is and add no
\* activity record; last_accessed is written and file_downloaded is recorded
\* only by a GET that opened the file (answered 200 or 206).
C20_AccessRecorded ==
    [][\A u \in Users, f \in FileIds, m \in {"GET", "HEAD"}, h \in RangeHeaders :
          download_file(u, f, m, h) =>
             /\ (m = "HEAD" \/ resp'.code = 416) => (files' = files /\ activity' = activity)
             /\ (files' # files \/ activity' # activity) =>
                   (m = "GET" /\ resp'.code \in {200, 206})]_vars

\* the content hash of the bytes a session accepted
session_content_hash(sid) == calculate_block_hash(accepted_plaintext(sessions[sid], sid).data)

\* C14: when the owner already has a File with the content hash of the bytes
\* of a complete single or chunked session, the complete answers
\* full_duplicate with dedup_ratio 100, creates a deduplicated_reference row
\* pointing at an existing file of that hash, and leaves the CAS files as
\* they are; whatever the size of the file.
C14_FullDuplicate ==
    [][\A u \in Users, sid \in DOMAIN sessions, x \in DedupOutcomes :
          (/\ complete_upload(u, sid, x)
           /\ x = "stored"
           /\ sessions[sid].user = u
           /\ sessions[sid].strategy \in {"single", "chunked"}
           /\ accepted_plaintext(sessions[sid], sid).all
           /\ \E f \in DOMAIN files :
                 files[f].user_id = u /\ files[f].content_hash = session_content_hash(sid))
          => (/\ resp'.dedup_status = "full_duplicate"
              /\ resp'.dedup_ratio = 100
              /\ resp'.id \in DOMAIN files' \ DOMAIN files
              /\ files'[resp'.id].storage_type = "deduplicated_reference"
              /\ files'[resp'.id].dedup_info.reference_file_id \in
                    {f \in DOMAIN files :
                        files[f].user_id = u /\ files[f].content_hash = session_content_hash(sid)}
              /\ DOMAIN cas' = DOMAIN cas)]_vars

\* C15: deleting one of two Files whose manifests share a block lowers that
\* block's reference_count by exactly one, keeps the block's CAS file, and
\* removes the File row.
C15_DeleteDecrements ==
    [][\A u \in Users, f \in DOMAIN files, g \in DOMAIN files :
          (/\ delete_file(u, f)
           /\ files[f].user_id = u
           /\ g # f
           /\ manifest_hashes(files[f]) \cap manifest_hashes(files[g]) # {})
          => (/\ f \notin DOMAIN files'
              /\ cas' = cas
              /\ Len(blocks') = Len(blocks)
              /\ \A h \in manifest_hashes(files[f]) \cap manifest_hashes(files[g]) :
                    \E i \in 1..Len(blocks) :
                        /\ blocks[i].block_hash = h
                        /\ blocks'[i].reference_count = blocks[i].reference_count - 1)]_vars

\* the block hashes that no File manifest contains
unreferenced_hashes ==
    {blocks[i].block_hash : i \in 1..Len(blocks)}
    \ UNION {manifest_hashes(files[f]) : f \in DOMAIN files}

\* C16: a run of the garbage collection removes the CAS file and the Block
\* rows of every block that no File references any more.
C16_Collected ==
    [][run_garbage_collection(TRUE) =>
          \A h \in unreferenced_hashes :
              /\ h \notin DOMAIN cas'
              /\ \A i \in 1..Len(blocks') : blocks'[i].block_hash # h]_vars

\* the chunk frames of a chunked File row that are not as they were sealed
tampered_chunks(row) ==
    {i \in DOMAIN row.chunk_info.paths :
        /\ row.chunk_info.paths[i] \in DOMAIN disk
        /\ ~disk[row.chunk_info.paths[i]].intact}

\* C17: a GET without Range of a chunked file one of whose stored chunk
\* frames was tampered with is answered 500 and emits no content bytes,
\* whichever chunk it is.
C17_TamperDetected ==
    [][\A f \in DOMAIN files :
          (/\ download_file("u1", f, "GET", NoRange)
           /\ files[f].user_id = "u1"
           /\ files[f].storage_type = "chunked"
           /\ tampered_chunks(files[f]) # {})
          => (resp'.code = 500 /\ resp'.bytes = 0)]_vars

\* the bytes of the blocks of a manifest, one after the other
RECURSIVE manifest_bytes(_)
manifest_bytes(entries) ==
    IF entries = <<>> THEN <<>> ELSE Head(entries).hash.sha \o manifest_bytes(Tail(entries))

\* C18: the manifest of every content_addressed File tiles the file: the
\* first block is at offset 0, every block starts where the one before it
\* ends, no block is empty, every block has the size of its bytes, the sizes
\* add up to the File's size and the blocks in order are the file's bytes.
C18_ManifestTiles ==
    \A f \in DOMAIN files :
        files[f].storage_type = "content_addressed" =>
            LET b == files[f].chunk_info.blocks IN
            /\ Len(b) >= 1
            /\ b[1].offset = 0
            /\ \A k \in 2..Len(b) : b[k].offset = b[k - 1].offset + b[k - 1].size
            /\ \A k \in 1..Len(b) : b[k].size > 0 /\ b[k].size = ByteLen(b[k].hash.sha)
            /\ sum_sizes(b) = files[f].file_size
            /\ sha256(manifest_bytes(b)) = files[f].content_hash

\* C18 witness: a content_addressed file of a chunked session, of seven
\* blocks, and one of a single session, of two
C18_Witness ==
    /\ \E f \in DOMAIN files :
          files[f].storage_type = "content_addressed" /\ Len(files[f].chunk_info.blocks) = 7
    /\ \E f \in DOMAIN files :
          files[f].storage_type = "content_addressed" /\ Len(files[f].chunk_info.blocks) = 2

\* C19: the bytes of a CAS file are a function of the block's plaintext alone
\* (nonce and key derived from the content), and a later upload of the same
\* plaintext, by whichever user, leaves the CAS file byte for byte as it is.
C19_Convergent ==
    [][\A h \in DOMAIN cas' :
          /\ cas'[h].body = h.sha
          /\ cas'[h].nonce = sha256(h.sha)
          /\ cas'[h].key = [derived |-> sha256(h.sha)]
          /\ h \in DOMAIN cas => cas'[h] = cas[h]]_vars

\* C19 witness: with cross-user deduplication enabled, a file of u1 and a
\* file of u2 whose manifests share a block that is in the CAS
C19_Witness ==
    /\ settings.CROSS_USER_DEDUP
    /\ \E f \in DOMAIN files, g \in DOMAIN files :
          /\ files[f].user_id = "u1"
          /\ files[g].user_id = "u2"
          /\ manifest_hashes(files[f]) \cap manifest_hashes(files[g]) \cap DOMAIN cas # {}

\* C21: init gives the session a lifetime of 3600 s, a successful direct
\* upload and the session write of a successful chunk upload set it to 3600 s
\* again, and a session whose lifetime has run out is gone for good: a chunk
\* request finishing on it is answered 404 and the session never comes back.
C21_SessionExpiry ==
    [][/\ \A u \in Users, n \in FileNames, z \in RangeSizes :
             (init_upload(u, n, z) /\ resp'.code = 200) => ttl'[resp'.id] = 3600
       /\ \A sid \in DOMAIN sessions :
             \A d \in DirectPayloads(sessions[sid].size) :
                (upload_direct("u1", sid, d) /\ resp'.code = 200) => ttl'[sid] = 3600
       /\ \A t \in tasks : upload_chunk_setex(t) => ttl'[t.id] = 3600
       /\ \A sid \in DOMAIN ttl :
             ttl[sid] = 0 =>
                /\ sid \notin DOMAIN sessions'
                /\ \A r \in reqs :
                      (r.id = sid /\ upload_chunk_write(r)) => resp'.code = 404]_vars

\* the stored frames that back a single or chunked File row
backing_paths(row) ==
    IF row.storage_type = "single" THEN {row.object_path} \cap DOMAIN disk
    ELSE IF row.storage_type = "chunked"
    THEN {row.chunk_info.paths[i] : i \in DOMAIN row.chunk_info.paths} \cap DOMAIN disk
    ELSE {}

\* C22: a migration run moves a file of tier cache last accessed more than
\* 30 days ago to warm, and one of tier warm last accessed more than 90 days
\* ago to cold: the row carries the new tier and its frames lie under the new
\* tier and no longer under the old path; any other file keeps its tier and
\* its frames.
C22_TierMigration ==
    [][\A u \in Users, age \in [FileIds -> AgeHours] :
          optimize_user_storage(u, age) =>
             \A f \in {g \in DOMAIN files \cap DOMAIN plain : plain[g].all} :
                LET row == files[f]
                    due == /\ row.user_id = u
                           /\ \/ row.storage_tier = "cache" /\ age[f] > 30 * 24
                              \/ row.storage_tier = "warm" /\ age[f] > 90 * 24
                    target == IF row.storage_tier = "cache" THEN "warm" ELSE "cold"
                IN IF due
                   THEN /\ files'[f].storage_tier = target
                        /\ \A p \in backing_paths(row) :
                              /\ p \notin DOMAIN disk'
                              /\ \E q \in DOMAIN disk' :
                                    q[1] = target /\ disk'[q] = disk[p]
                   ELSE /\ files'[f].storage_tier = row.storage_tier
                        /\ \A p \in backing_paths(row) :
                              p \in DOMAIN disk' /\ disk'[p] = disk[p]]_vars

\* C23: every successful complete of a single or chunked session stores the
\* file through the deduplication pipeline, whatever its size: the new File
\* row is content_addressed or deduplicated_reference, never single or
\* chunked.
C23_AlwaysDeduplicated ==
    [][\A u \in Users, sid \in DOMAIN sessions :
          (/\ complete_upload(u, sid, "stored")
           /\ sessions[sid].user = u
           /\ sessions[sid].strategy \in {"single", "chunked"}
           /\ accepted_plaintext(sessions[sid], sid).all
           /\ resp'.status = "success")
          => (/\ resp'.id \in DOMAIN files' \ DOMAIN files
              /\ files'[resp'.id].storage_type \in
                    {"content_addressed", "deduplicated_reference"})]_vars

\* C24: a completion answered full_duplicate writes no block: it creates no
\* CAS file, inserts no Block row and changes no Block row's
\* reference_count.
C24_FullDuplicateWritesNoBlock ==
    [][\A u \in Users, sid \in DOMAIN sessions :
          (/\ complete_upload(u, sid, "stored")
           /\ sessions[sid].user = u
           /\ resp'.dedup_status = "full_duplicate")
          => (/\ DOMAIN cas' = DOMAIN cas
              /\ Len(blocks') = Len(blocks)
              /\ \A i \in 1..Len(blocks) :
                    blocks'[i].reference_count = blocks[i].reference_count)]_vars

\* the Block rows of hash h
rows_of_hash(table, h) == {i \in 1..Len(table) : table[i].block_hash = h}

\* C25: when a file is stored and a File in the deduplication scope (the
\* user's files, or all files with cross-user deduplication) already has the
\* block h in its manifest, the completion raises the reference_count of a
\* Block row of h and inserts no row for h; otherwise it inserts exactly one
\* row for h, with reference_count 1, also when the file contains the block
\* several times.
C25_OneRowPerHash ==
    [][\A u \in Users, sid \in DOMAIN sessions :
          (/\ complete_upload(u, sid, "stored")
           /\ sessions[sid].user = u
           /\ resp'.dedup_status = "stored_with_dedup")
          => \A h \in manifest_hashes(files'[resp'.id]) :
                LET inserted == rows_of_hash(blocks', h) \ rows_of_hash(blocks, h)
                    known == \E f \in DOMAIN files :
                                /\ settings.CROSS_USER_DEDUP \/ files[f].user_id = u
                                /\ h \in manifest_hashes(files[f])
                IN IF known
                   THEN /\ inserted = {}
                        /\ \E i \in rows_of_hash(blocks, h) :
                              blocks'[i].reference_count > blocks[i].reference_count
                   ELSE /\ Cardinality(inserted) = 1
                        /\ \A i \in inserted : blocks'[i].reference_count = 1]_vars

\* the sizes of the blocks between the boundaries
block_sizes(boundaries) ==
    [k \in 1..Len(boundaries) |->
        boundaries[k] - (IF k = 1 THEN 0 ELSE boundaries[k - 1])]

\* C27: for an input of at least min_block_size bytes, every block between the
\* boundaries find_chunk_boundaries returns has at most max_block_size bytes,
\* and every block but the last has at least min_block_size bytes.
C27_BlockSizeBounds ==
    (resp.op = "find_chunk_boundaries" /\ resp.bytes >= min_block_size) =>
        LET sizes == block_sizes(resp.body) IN
        \A k \in 1..Len(sizes) :
            /\ sizes[k] <= max_block_size
            /\ k < Len(sizes) => sizes[k] >= min_block_size

\* C26: with cross-user deduplication, once two completions whose files both
\* contain the block h have committed, interleaved in any way, there is one
\* Block row for h and its reference_count is 2.
C26_AtomicDetectIncrement ==
    (settings.CROSS_USER_DEDUP /\ txns = {}) =>
        \A f \in DOMAIN files, g \in DOMAIN files :
            f # g =>
                \A h \in manifest_hashes(files[f]) \cap manifest_hashes(files[g]) :
                    /\ Cardinality(rows_of_hash(blocks, h)) = 1
                    /\ \A i \in rows_of_hash(blocks, h) : blocks[i].reference_count = 2

\* C30: a content-addressed file that holds the whole sealed block is left as
\* it is by every later statement of every writer of the same hash.
C30_CasImmutable ==
    [][\A h \in DOMAIN cas :
          cas[h] = block_to_store(h.sha) => (h \in DOMAIN cas' /\ cas'[h] = cas[h])]_vars

\* C29: a completion that stores a file with a manifest leaves a block file
\* on disk for every block of that manifest, also for a block whose row was
\* in the table while its file was missing.
C29_WriterRematerializes ==
    [][\A sid \in DOMAIN sessions :
          (/\ complete_upload(sessions[sid].user, sid, "stored")
           /\ nextFid \in DOMAIN files')
          => manifest_hashes(files'[nextFid]) \subseteq DOMAIN cas']_vars

tier_of(path) == IF path[1] \in {"warm", "cold"} THEN path[1] ELSE "cache"

\* C31: in every state the stored frames of a File row lie under the
\* directory of the row's storage_tier.
C31_TierFollowsBytes ==
    \A f \in {g \in DOMAIN files \cap DOMAIN plain : plain[g].all} :
        \A p \in backing_paths(files[f]) : tier_of(p) = files[f].storage_tier

\* the plaintext of the chunks of a chunked File row, in index order, up to
\* the first chunk that cannot be read back: its frame is not on disk, was
\* changed, or was sealed under another key or index
RECURSIVE readable_prefix(_, _)
readable_prefix(row, i) ==
    IF i >= row.chunk_info.count THEN <<>>
    ELSE LET path == IF i \in DOMAIN row.chunk_info.paths THEN row.chunk_info.paths[i]
                     ELSE ChunkPath(row.chunk_info.upload_id, i)
         IN IF \/ path \notin DOMAIN disk
               \/ ~disk[path].intact \/ disk[path].key # row.encryption_key
               \/ disk[path].aad # i \/ row.chunk_info.compressed
            THEN <<>>
            ELSE disk[path].body \o readable_prefix(row, i + 1)

\* C32: the body of a GET of a chunked file is the bytes start..end of the
\* chunks in index order, cut off at the first chunk that fails: no byte
\* outside the range, none out of order, none after the failing chunk.
C32_StreamInOrder ==
    [][\A f \in DOMAIN files, h \in RangeHeaders \cup {NoRange} :
          (/\ download_file("u1", f, "GET", h)
           /\ files[f].user_id = "u1"
           /\ files[f].storage_type = "chunked"
           /\ resp'.code \in {200, 206})
          => LET S == files[f].file_size
                 start == IF resp'.code = 206 THEN range_start(h, S) ELSE 0
                 end == IF resp'.code = 206 THEN range_end(h, S) ELSE S - 1
             IN pieces(resp'.body, resp'.skip, resp'.skip + resp'.bytes)
                   = pieces(readable_prefix(files[f], 0), start, end + 1)]_vars

\* a range that starts inside the second chunk was served from a file whose
\* chunks are all readable
C32_Witness ==
    /\ resp.op = "download" /\ resp.id \in DOMAIN files
    /\ files[resp.id].storage_type = "chunked"
    /\ resp.code = 206 /\ resp.status = "ok"
    /\ resp.content_range = <<40 * MiB, 56 * MiB - 1, 56 * MiB>>
    /\ resp.bytes = 16 * MiB

\* C33: without cross-user deduplication a completion of user u leaves every
\* Block row of a block that a File of another user names as it is, and a
\* deduplicated_reference row it creates points to a File of u.
C33_NoCrossUserSharing ==
    [][\A sid \in DOMAIN sessions, x \in DedupOutcomes :
          (/\ complete_upload(sessions[sid].user, sid, x)
           /\ ~settings.CROSS_USER_DEDUP
           /\ nextFid \in DOMAIN files')
          => LET u == sessions[sid].user
                 new_file == files'[nextFid]
             IN /\ \A i \in 1..Len(blocks) :
                      (\E f \in DOMAIN files :
                          /\ files[f].user_id # u
                          /\ blocks[i].block_hash \in manifest_hashes(files[f]))
                      => blocks'[i] = blocks[i]
                /\ new_file.storage_type = "deduplicated_reference"
                      => /\ new_file.dedup_info.reference_file_id \in DOMAIN files
                         /\ files[new_file.dedup_info.reference_file_id].user_id = u]_vars

\* without cross-user deduplication a user has stored the bytes another user
\* had stored before, and the new File is a content_addressed row of its own
C33_Witness ==
    /\ ~settings.CROSS_USER_DEDUP
    /\ resp.op = "complete" /\ resp.dedup_status = "stored_with_dedup"
    /\ \E f \in DOMAIN files, g \in DOMAIN files :
          /\ f < g /\ g = resp.id
          /\ files[f].user_id # files[g].user_id
          /\ files[f].content_hash = files[g].content_hash
          /\ files[f].storage_type = "content_addressed"
          /\ files[g].storage_type = "content_addressed"

\* C34: in every state the File that a deduplicated_reference row names as
\* its reference_file_id exists.
C34_ReferencePinsTarget ==
    \A f \in DOMAIN files :
        files[f].storage_type = "deduplicated_reference"
            => files[f].dedup_info.reference_file_id \in DOMAIN files

\* C35: in every state every index a session has recorded has a recorded
\* path, and the frame of that path is on disk.
C35_RecordedAfterWritten ==
    \A sid \in DOMAIN sessions :
        \A i \in received_indices(sessions[sid]) :
            /\ i \in DOMAIN sessions[sid].chunk_paths
            /\ sessions[sid].chunk_paths[i] \in DOMAIN disk

\* C36: in every state no two File rows come from the same upload session.
C36_OneFilePerSession ==
    \A f \in DOMAIN files \cap DOMAIN plain, g \in DOMAIN files \cap DOMAIN plain :
        f # g => plain[f].upload_id # plain[g].upload_id

\* the hashes of the chunks a client sends for the indices 0..count-1, in
\* index order
plaintext_hashes(count) == [k \in 1..count |-> sha256(ChunkPayload(k - 1))]

\* C37: every chunked File row that holds one path for each index of
\* [0, chunk_count) and as many hashes lists the hashes of the chunks in
\* index order and has the hash of that list as its content_hash, whatever
\* the order the chunks arrived in.
C37_HashOfPlaintext ==
    \A f \in DOMAIN files :
        (/\ files[f].storage_type = "chunked"
         /\ DOMAIN files[f].chunk_info.paths = 0..(files[f].chunk_info.count - 1)
         /\ Len(files[f].chunk_info.chunks) = files[f].chunk_info.count)
        => (/\ files[f].chunk_info.chunks = plaintext_hashes(files[f].chunk_info.count)
            /\ files[f].content_hash
                  = combined_hash(plaintext_hashes(files[f].chunk_info.count)))

\* C38: a complete of an inline or single session that holds neither the
\* sealed payload nor the path of a stored one creates no File row and leaves
\* used as it is.
C38_NoFileWithoutPayload ==
    [][\A u \in Users, sid \in DOMAIN sessions, x \in DedupOutcomes :
          (/\ complete_upload(u, sid, x)
           /\ sessions[sid].user = u
           /\ sessions[sid].strategy \in {"inline", "single"}
           /\ sessions[sid].encrypted_data = NoFrame
           /\ sessions[sid].storage_path = NoPath)
          => (/\ files' = files
              /\ users' = users)]_vars

\* the paths of the temporary frames a session's File refers to
session_frames(session) ==
    IF session.strategy = "single" THEN {session.storage_path}
    ELSE {session.chunk_paths[i] : i \in DOMAIN session.chunk_paths}

C39_SizeIsAccepted ==
    \A f \in DOMAIN files \cap DOMAIN plain :
        plain[f].all => files[f].file_size = ByteLen(plain[f].data)

====
